---------------------------- MODULE Spec2Model ----------------------------
(***************************************************************************)
(* A model of the pick-versus-free-agent pipeline: the name canonicalizer, *)
(* the bucket pricing engine, salary reconciliation, the draft-to-outcome  *)
(* join, the retry-fetch loops, the league fan-out, the season batches,   *)
(* process_arbitrage.main, the player-salary cache and the win-share       *)
(* table.  Each component is a small state machine over the same           *)
(* variables; a component's specification moves only its own variables and *)
(* leaves the others at their initial values.                              *)
(*                                                                         *)
(* Python strings are sequences of one-character strings.  Floats are IEEE *)
(* 754 doubles, each operation rounded as the hardware rounds it.          *)
(***************************************************************************)
EXTENDS Integers, Sequences, FiniteSets, TLC

VARIABLES
    name,        \* canonicalizer: the raw display name handed to _canonicalize
    canonical,   \* canonicalizer: _canonicalize(name)
    recanon,     \* canonicalizer: _canonicalize(canonical), the key re-keyed
    typed,       \* canonicalizer: number of tokens typed into name
    slot,        \* bucketing: the pick number handed to assign_bucket
    bucket,      \* bucketing: assign_bucket(slot)
    pick_outcomes, \* pricing: the rows of data/pick_outcomes_first4.csv
    band,        \* pricing: the market band handed to build_bucket_table
    table,       \* pricing: build_bucket_table(prepare_pick_costs(), band)
    salary_csv,  \* reconciliation: the rows of data/player_salary.csv
    salary_clean, \* reconciliation: load_salary_data() of those rows
    league,      \* reconciliation: fetch_league_salaries' table of those rows
    ingest_error, \* reconciliation: what the last step raised, "" when nothing
    draft,       \* join: the draft table handed to build_pick_outcomes
    war,         \* join: the war table handed to build_pick_outcomes
    salary,      \* join: the salary table handed to build_pick_outcomes
    outcomes,    \* join: build_pick_outcomes(draft, war, salary)
    fetcher,     \* retry: the module whose _request_with_retry is running
    pc,          \* retry: where the call is: idle, sleep, get, done
    attempts,    \* retry: GET requests issued by the call so far
    delay,       \* retry: the local variable delay, in seconds
    sleeps,      \* retry: the delays slept by the call so far
    responses,   \* retry: what each GET of the call came back with
    result,      \* retry: how the call ended
    page,        \* retry: the page of the response the call returned
    fetched,     \* retry: what the fetcher that made the call returned
    entry,       \* fan-out: the function running, fetch_ or get_league_salaries
    team_table,  \* fan-out: what the fetch of each team comes back with
    future,      \* fan-out: the state of each team's future in the executor
    consumed,    \* fan-out: the futures the calling thread has taken a result of
    frames,      \* fan-out: the list frames of the calling thread
    fan_pc,      \* fan-out: where the calling thread is
    returned,    \* fan-out: what the call returned
    script,      \* batch: the season loop running, build_draft_data or main
    season_fetch, \* batch: what the fetch of each season comes back with
    season_end,  \* batch: the season the loop is about to fetch
    out_frames,  \* batch: the list frames (out_frames) of the loop
    warned,      \* batch: the seasons a warning was printed for
    batch_pc,    \* batch: where the script is
    output,      \* batch: the table the script wrote, or its exception
    market_raw,  \* main: the rows of data/salary_market_raw.csv
    picks_raw,   \* main: the rows of data/pick_outcomes_first4.csv
    main_pc,     \* main: where process_arbitrage.main is
    market_df,   \* main: the local market, prepare_salary_pricing()
    picks_df,    \* main: the local picks, the frame every scenario is given
    base_band,   \* main: the local band, compute_band(market)
    table_baseline, \* main: the local table_baseline
    scenario_specs, \* main: the list scenario_specs
    scenario_tables, \* main: the list scenario_tables
    exports,     \* main: the formatted tables written, in order
    main_error,  \* main: the exception main ended with, if any
    cache,       \* cache: the dictionary of lru_cache around fetch_player_salaries
    in_call,     \* cache: for each thread, the call of fetch_player_salaries it is in
    overlapped,  \* cache: the slugs whose body two threads have run at one time
    first_returned, \* cache: for each slug, what its first call to return returned
    last_call,   \* cache: the latest call to end: its slug, outcome and GET requests
    n_calls,     \* cache: calls of fetch_player_salaries made by the process
    advanced,    \* win shares: the <tr> rows of the season's advanced table
    win_shares   \* win shares: what fetch_season_win_shares returns for them

varsCanon == <<name, canonical, recanon, typed>>
varsBucket == <<slot, bucket>>
varsPricing == <<pick_outcomes, band, table>>
varsRecon == <<salary_csv, salary_clean, league, ingest_error>>
varsJoin == <<draft, war, salary, outcomes>>
varsRetry == <<fetcher, pc, attempts, delay, sleeps, responses, result, page, fetched>>
varsFanout == <<entry, team_table, future, consumed, frames, fan_pc, returned>>
varsBatch == <<script, season_fetch, season_end, out_frames, warned, batch_pc, output>>
varsMain ==
    <<market_raw, picks_raw, main_pc, market_df, picks_df, base_band, table_baseline,
      scenario_specs, scenario_tables, exports, main_error>>
varsCache == <<cache, in_call, first_returned, last_call, n_calls, overlapped>>
varsWs == <<advanced, win_shares>>

vars == <<varsCanon, varsBucket, varsPricing, varsRecon, varsJoin, varsRetry,
          varsFanout, varsBatch, varsMain, varsCache, varsWs>>

-----------------------------------------------------------------------------
(* Python values handed to and returned by _canonicalize.                  *)

PyStr(s) == [type |-> "str", val |-> s]
PyNone == [type |-> "NoneType", val |-> <<>>]
PyNaN == [type |-> "float", val |-> <<>>]
PyTypeError == [type |-> "TypeError", val |-> <<>>]

isinstance_str(x) == x.type = "str"

-----------------------------------------------------------------------------
(* Characters.  LATIN SMALL LETTER E WITH ACUTE (written by its code point *)
(* U+00E9) is the one precomposed letter of the alphabet and COMBINING     *)
(* ACUTE ACCENT (U+0301) the one combining mark; LATIN SMALL LETTER O WITH *)
(* STROKE (U+00F8) and LATIN SMALL LETTER DOTLESS I (U+0131) are the       *)
(* letters NFKD leaves as they are; ARABIC-INDIC DIGIT THREE (U+0663) is  *)
(* the one decimal digit outside ASCII; CHARACTER TABULATION (U+0009) is   *)
(* the one whitespace character other than the space; "$" stands for any   *)
(* punctuation the canonicalizer has no rule of its own for.  The capitals *)
(* U+00C9 and U+00D8 are there for str.upper() of the two small letters.   *)

Tab == "U+0009"
ECapitalAcute == "U+00C9"
OCapitalStroke == "U+00D8"
EAcute == "U+00E9"
CombiningAcute == "U+0301"
OStroke == "U+00F8"
DotlessI == "U+0131"
ArabicIndicThree == "U+0663"

ascii_lowercase ==
    <<"a", "b", "c", "d", "e", "f", "g", "h", "i", "j", "k", "l", "m",
      "n", "o", "p", "q", "r", "s", "t", "u", "v", "w", "x", "y", "z">>
ascii_uppercase ==
    <<"A", "B", "C", "D", "E", "F", "G", "H", "I", "J", "K", "L", "M",
      "N", "O", "P", "Q", "R", "S", "T", "U", "V", "W", "X", "Y", "Z">>
LowerLetters == {ascii_lowercase[k] : k \in 1..Len(ascii_lowercase)}
UpperLetters == {ascii_uppercase[k] : k \in 1..Len(ascii_uppercase)}
Digits == {"0", "1", "2", "3", "4", "5", "6", "7", "8", "9"}
AsciiLetters == LowerLetters \cup UpperLetters
Marks == {".", ",", "'"}

AlnumChars == AsciiLetters \cup Digits

LowerOf ==
    [c \in UpperLetters |->
        ascii_lowercase[CHOOSE k \in 1..Len(ascii_uppercase) : ascii_uppercase[k] = c]]
UpperOf ==
    [c \in LowerLetters |->
        ascii_uppercase[CHOOSE k \in 1..Len(ascii_lowercase) : ascii_lowercase[k] = c]]

\* str.lower() on one character
lower_char(c) ==
    IF c \in UpperLetters THEN LowerOf[c]
    ELSE IF c = ECapitalAcute THEN EAcute
    ELSE IF c = OCapitalStroke THEN OStroke
    ELSE c

\* str.upper() on one character
upper_char(c) ==
    IF c \in LowerLetters THEN UpperOf[c]
    ELSE IF c = EAcute THEN ECapitalAcute
    ELSE IF c = OStroke THEN OCapitalStroke
    ELSE IF c = DotlessI THEN "I"
    ELSE c

\* unicodedata.normalize("NFKD", ch) for one character
nfkd_char(c) ==
    IF c = EAcute THEN <<"e", CombiningAcute>>
    ELSE IF c = ECapitalAcute THEN <<"E", CombiningAcute>>
    ELSE <<c>>

\* unicodedata.combining(ch) != 0
combining(c) == c = CombiningAcute

\* \w of a str pattern: the underscore and what str.isalnum() holds for,
\* the letters outside ASCII included
IsWordChar(c) ==
    \/ c \in AlnumChars
    \/ c \in {"_", ECapitalAcute, OCapitalStroke, EAcute, OStroke, DotlessI, ArabicIndicThree}

\* \s of a str pattern, and the characters str.strip() takes off
IsSpace(c) == c \in {" ", Tab}

RECURSIVE Flatten(_)
Flatten(ss) == IF ss = <<>> THEN <<>> ELSE Head(ss) \o Flatten(Tail(ss))

\* name = unicodedata.normalize("NFKD", name)
normalize_NFKD(s) == Flatten([k \in 1..Len(s) |-> nfkd_char(s[k])])

\* "".join(ch for ch in name if not unicodedata.combining(ch))
strip_combining(s) == LET NotCombining(c) == ~combining(c) IN SelectSeq(s, NotCombining)

\* name.replace(".", "").replace(",", "").replace("'", "")
remove_marks(s) == LET NotMark(c) == c \notin Marks IN SelectSeq(s, NotMark)

\* name.replace("-", " ")
hyphen_to_space(s) == [k \in 1..Len(s) |-> IF s[k] = "-" THEN " " ELSE s[k]]

\* the alternation (jr|sr|ii|iii|iv|v), in the order the pattern tries it
SUFFIXES == << <<"j","r">>, <<"s","r">>, <<"i","i">>, <<"i","i","i">>, <<"i","v">>, <<"v">> >>

\* \b at the position before s[i] (i ranges over 1..Len(s)+1)
WordBoundary(s, i) ==
    LET before == i > 1 /\ i - 1 <= Len(s) /\ IsWordChar(s[i - 1])
        after == i >= 1 /\ i <= Len(s) /\ IsWordChar(s[i])
    IN  before # after

\* the literal matched without re.IGNORECASE
LiteralAt_case_sensitive(s, i, w) ==
    /\ i + Len(w) - 1 <= Len(s)
    /\ \A k \in 1..Len(w) : s[i + k - 1] = w[k]

\* the character c matches the lower-case literal l under re.IGNORECASE
\* in a str pattern: the two cases of l, and the dotless i for "i"
ignorecase_eq(c, l) == lower_char(c) = l \/ (l = "i" /\ c = DotlessI)

\* the literal w matches at s[i], ignoring case
LiteralAt(s, i, w) ==
    /\ i + Len(w) - 1 <= Len(s)
    /\ \A k \in 1..Len(w) : ignorecase_eq(s[i + k - 1], w[k])

\* \b(jr|sr|ii|iii|iv|v)\b matches at s[i] with alternative number a
SuffixAt(s, i, a) ==
    /\ WordBoundary(s, i)
    /\ LiteralAt(s, i, SUFFIXES[a])
    /\ WordBoundary(s, i + Len(SUFFIXES[a]))

\* length of the match at s[i]: the first alternative that lets the whole
\* pattern match, 0 when none does
SuffixMatchLen(s, i) ==
    LET ok == {a \in 1..Len(SUFFIXES) : SuffixAt(s, i, a)}
    IN  IF ok = {} THEN 0
        ELSE Len(SUFFIXES[CHOOSE a \in ok : \A b \in ok : a <= b])

\* re.sub(r"\b(jr|sr|ii|iii|iv|v)\b", "", name, flags=re.IGNORECASE):
\* leftmost matches, left to right, each replaced by nothing
RECURSIVE sub_suffix_from(_, _)
sub_suffix_from(s, i) ==
    IF i > Len(s) THEN <<>>
    ELSE LET m == SuffixMatchLen(s, i)
         IN  IF m > 0 THEN sub_suffix_from(s, i + m)
             ELSE <<s[i]>> \o sub_suffix_from(s, i + 1)

sub_suffix(s) == sub_suffix_from(s, 1)

\* re.sub(r"[^a-zA-Z0-9 ]", "", name)
sub_non_alnum(s) ==
    LET Kept(c) == c \in AlnumChars \/ c = " " IN SelectSeq(s, Kept)

\* re.sub(r"\s+", " ", name)
RECURSIVE sub_whitespace(_)
sub_whitespace(s) ==
    IF s = <<>> THEN <<>>
    ELSE IF IsSpace(Head(s))
         THEN IF Len(s) > 1 /\ IsSpace(s[2]) THEN sub_whitespace(Tail(s))
              ELSE <<" ">> \o sub_whitespace(Tail(s))
         ELSE <<Head(s)>> \o sub_whitespace(Tail(s))

\* str.strip()
RECURSIVE lstrip(_)
lstrip(s) == IF s # <<>> /\ IsSpace(Head(s)) THEN lstrip(Tail(s)) ELSE s

RECURSIVE rstrip(_)
rstrip(s) ==
    IF s # <<>> /\ IsSpace(s[Len(s)]) THEN rstrip(SubSeq(s, 1, Len(s) - 1)) ELSE s

strip(s) == rstrip(lstrip(s))

\* str.lower()
lower(s) == [k \in 1..Len(s) |-> lower_char(s[k])]

\* lines 23-29 of _canonicalize, on the characters of a str
canonicalize_str(s) ==
    lower(strip(sub_whitespace(sub_non_alnum(sub_suffix(hyphen_to_space(
        remove_marks(strip_combining(normalize_NFKD(s)))))))))

\* _canonicalize without its isinstance guard: normalize() raises TypeError
canonicalize_unguarded(x) ==
    IF isinstance_str(x) THEN PyStr(canonicalize_str(x.val)) ELSE PyTypeError

\* _canonicalize(name)
_canonicalize(x) ==
    IF ~isinstance_str(x) THEN PyStr(<<>>) ELSE PyStr(canonicalize_str(x.val))

-----------------------------------------------------------------------------
(* The canonicalizer as a state machine: a name is typed one token at a    *)
(* time (a character, or a generational suffix as a word), or the cell is  *)
(* missing (None, NaN); after every step the name is keyed, and the key is *)
(* keyed again as a downstream loader does with an already-canonical file. *)

MaxTokens == 3

\* generational suffixes typed as a word, capitalised as they are written
SuffixWords == { <<"J","r">>, <<"I","I">> }

\* the characters typed: the letters of the suffixes and of an accented
\* name, the o with stroke and the dotless i, a digit, the underscore, the
\* two whitespace characters, and every kind of punctuation the
\* canonicalizer tells apart (the comma is removed as the period and the
\* apostrophe are)
TypedChars ==
    {"e", "j", "r", "i", "v", "1", "_", ".", "'", " ", Tab, "-", "$",
     EAcute, CombiningAcute, OStroke, DotlessI}

Tokens == {<<c>> : c \in TypedChars} \cup SuffixWords

InitCanon ==
    /\ name = PyStr(<<>>)
    /\ canonical = PyStr(<<>>)
    /\ recanon = PyStr(<<>>)
    /\ typed = 0

Keyed(x) ==
    /\ name' = x
    /\ canonical' = _canonicalize(x)
    /\ recanon' = _canonicalize(_canonicalize(x))

TypeToken ==
    /\ isinstance_str(name)
    /\ typed < MaxTokens
    /\ typed' = typed + 1
    /\ \E t \in Tokens : Keyed(PyStr(name.val \o t))
    /\ UNCHANGED <<varsBucket, varsPricing, varsRecon, varsJoin, varsRetry,
                  varsFanout, varsBatch, varsMain, varsCache, varsWs>>

MissingName ==
    /\ isinstance_str(name)
    /\ typed' = typed
    /\ \E x \in {PyNone, PyNaN} : Keyed(x)
    /\ UNCHANGED <<varsBucket, varsPricing, varsRecon, varsJoin, varsRetry,
                  varsFanout, varsBatch, varsMain, varsCache, varsWs>>

NextCanon == TypeToken \/ MissingName


-----------------------------------------------------------------------------
(* Floats.  A float of the code is an IEEE 754 double: the record of its   *)
(* class (finite, inf, nan), its sign, and, when it is finite, the odd     *)
(* natural number man and the exponent exp with value sign * man * 2^exp   *)
(* (man = 0 for zero).  man is a natural number of any size, written as    *)
(* its digits in base 2^15, the lowest first.  Every operation computes    *)
(* the exact result and rounds it once, to the nearest double, ties to the *)
(* even one, as the hardware does.                                         *)

Abs(a) == IF a < 0 THEN -a ELSE a

Base == 2^15
pow2 == <<1, 2, 4, 8, 16, 32, 64, 128, 256, 512, 1024, 2048, 4096, 8192, 16384, 32768>>

\* 2^k for k in 0..15
Pow2(k) == pow2[k + 1]

RECURSIVE SmallBitLen(_)
SmallBitLen(x) == IF x = 0 THEN 0 ELSE 1 + SmallBitLen(x \div 2)

RECURSIVE SmallTrailingZeros(_)
SmallTrailingZeros(x) == IF x % 2 = 1 THEN 0 ELSE 1 + SmallTrailingZeros(x \div 2)

\* a natural number without its leading zero digits
RECURSIVE BTrim(_)
BTrim(a) ==
    IF a = <<>> THEN <<>>
    ELSE IF a[Len(a)] = 0 THEN BTrim(SubSeq(a, 1, Len(a) - 1))
    ELSE a

RECURSIVE BFromInt(_)
BFromInt(n) == IF n = 0 THEN <<>> ELSE <<n % Base>> \o BFromInt(n \div Base)

\* the digit of a at place k, 0 above its length
BDigit(a, k) == IF k <= Len(a) THEN a[k] ELSE 0

BRest(a) == IF a = <<>> THEN <<>> ELSE Tail(a)
BLow(a) == IF a = <<>> THEN 0 ELSE Head(a)

\* a + b + c, c a carry
RECURSIVE BAddC(_, _, _)
BAddC(a, b, c) ==
    IF a = <<>> /\ b = <<>> THEN (IF c = 0 THEN <<>> ELSE <<c>>)
    ELSE LET x == BLow(a) + BLow(b) + c
         IN  <<x % Base>> \o BAddC(BRest(a), BRest(b), x \div Base)

BAdd(a, b) == BAddC(a, b, 0)

\* a - b - c for a >= b + c, with its leading zero digits
RECURSIVE BSubC(_, _, _)
BSubC(a, b, c) ==
    IF a = <<>> THEN <<>>
    ELSE LET x == Head(a) - BLow(b) - c
         IN  <<(x + Base) % Base>> \o BSubC(Tail(a), BRest(b), IF x < 0 THEN 1 ELSE 0)

BSub(a, b) == BTrim(BSubC(a, b, 0))

RECURSIVE BCmpFrom(_, _, _)
BCmpFrom(a, b, i) ==
    IF i = 0 THEN 0
    ELSE IF a[i] < b[i] THEN -1
    ELSE IF a[i] > b[i] THEN 1
    ELSE BCmpFrom(a, b, i - 1)

\* -1, 0 or 1 as a < b, a = b or a > b
BCmp(a, b) ==
    IF Len(a) < Len(b) THEN -1
    ELSE IF Len(a) > Len(b) THEN 1
    ELSE BCmpFrom(a, b, Len(a))

\* a * Base^n
BUpBy(a, n) == IF a = <<>> THEN <<>> ELSE [k \in 1..n |-> 0] \o a

\* a * m + c for one digit m > 0 and a carry c
RECURSIVE BMulDigit(_, _, _)
BMulDigit(a, m, c) ==
    IF a = <<>> THEN (IF c = 0 THEN <<>> ELSE <<c>>)
    ELSE LET x == Head(a) * m + c
         IN  <<x % Base>> \o BMulDigit(Tail(a), m, x \div Base)

\* a * b, the digits of b taken half by half
RECURSIVE BMul(_, _)
BMul(a, b) ==
    IF a = <<>> \/ b = <<>> THEN <<>>
    ELSE IF Len(b) = 1 THEN (IF b[1] = 0 THEN <<>> ELSE BMulDigit(a, b[1], 0))
    ELSE LET half == Len(b) \div 2
         IN  BAdd(BMul(a, SubSeq(b, 1, half)),
                  BUpBy(BMul(a, SubSeq(b, half + 1, Len(b))), half))

\* a * 2^k
BShl(a, k) == BUpBy(BMulDigit(a, Pow2(k % 15), 0), k \div 15)

\* a \div 2^k: each digit gives its high bits and takes the low bits of
\* the digit above
BShr(a, k) ==
    LET d == k \div 15
        s == k % 15
        at(i) == BDigit(a, i + d)
    IN  IF d >= Len(a) THEN <<>>
        ELSE BTrim([i \in 1..(Len(a) - d) |->
                       at(i) \div Pow2(s) + (at(i + 1) % Pow2(s)) * Pow2(15 - s)])

\* bit k of a, bit 0 being the lowest
BBit(a, k) ==
    IF k \div 15 >= Len(a) THEN 0 ELSE (a[k \div 15 + 1] \div Pow2(k % 15)) % 2

\* a % 2^k # 0
BLowBits(a, k) ==
    \/ \E i \in 1..Len(a) : i <= k \div 15 /\ a[i] # 0
    \/ k \div 15 < Len(a) /\ a[k \div 15 + 1] % Pow2(k % 15) # 0

BBitLen(a) == IF a = <<>> THEN 0 ELSE (Len(a) - 1) * 15 + SmallBitLen(a[Len(a)])

\* the number of zero bits below the lowest one bit of a # 0
BTrailingZeros(a) ==
    LET low == CHOOSE k \in 1..Len(a) : a[k] # 0 /\ \A j \in 1..(k - 1) : a[j] = 0
    IN  15 * (low - 1) + SmallTrailingZeros(a[low])

\* the largest digit d in lo..hi with b * d <= a, given that b * lo <= a
RECURSIVE BQuotientDigit(_, _, _, _)
BQuotientDigit(a, b, lo, hi) ==
    IF lo >= hi THEN lo
    ELSE LET mid == (lo + hi + 1) \div 2
         IN  IF BCmp(BMulDigit(b, mid, 0), a) <= 0 THEN BQuotientDigit(a, b, mid, hi)
             ELSE BQuotientDigit(a, b, lo, mid - 1)

\* the digits of the quotient, one for each digit of a, and the remainder
\* of r * Base^Len(a) + a by b, for r < b and b with its top bit set; the
\* digits of a are taken half by half from the top.  For one digit, with t
\* the two digits of the running remainder at and above the top digit of
\* b, the digit of the quotient lies between t \div (top + 1) and
\* t \div top
\* one digit d of a quotient and the remainder cur - b * d
BDivModDigit(cur, b, d) ==
    [q |-> <<d>>, r |-> IF d = 0 THEN cur ELSE BSub(cur, BMulDigit(b, d, 0))]

\* the digit of the quotient of cur by b, sought from t \div (top + 1) to
\* t \div top, and the remainder
BDivModBetween(cur, b, t, top) ==
    BDivModDigit(cur, b,
        BQuotientDigit(cur, b, t \div (top + 1),
                       IF t \div top > Base - 1 THEN Base - 1 ELSE t \div top))

\* quotient digit and remainder of cur by b of n digits, cur < b * Base
BDivModStep(cur, b, n) ==
    BDivModBetween(cur, b, BDigit(cur, n + 1) * Base + BDigit(cur, n), b[n])

RECURSIVE BDivModFrom(_, _, _)
BDivModFrom(a, b, r) ==
    IF a = <<>> THEN [q |-> <<>>, r |-> r]
    ELSE IF Len(a) = 1 THEN BDivModStep(BTrim(a \o r), b, Len(b))
    ELSE LET half == Len(a) \div 2
             Lower(hi) ==
                 {[q |-> lo.q \o hi.q, r |-> lo.r] :
                     lo \in {BDivModFrom(SubSeq(a, 1, half), b, hi.r)}}
         IN  CHOOSE d \in UNION {Lower(hi) :
                     hi \in {BDivModFrom(SubSeq(a, half + 1, Len(a)), b, r)}} : TRUE

\* quotient and remainder of a by m, 0 < m <= Base
RECURSIVE BDivDigit(_, _)
BDivDigit(a, m) ==
    IF a = <<>> THEN [q |-> <<>>, r |-> 0]
    ELSE LET hi == BDivDigit(Tail(a), m)
             cur == hi.r * Base + Head(a)
         IN  [q |-> <<cur \div m>> \o hi.q, r |-> cur % m]

\* quotient and remainder of a by b # 0; a divisor of several digits is
\* shifted first, with the dividend, so that its top digit has its 15
\* bits, which leaves the quotient as it is
BDivModShifted(d, s) == [q |-> BTrim(d.q), r |-> BShr(d.r, s)]
BDivModBy(a, b, s) == BDivModShifted(BDivModFrom(BShl(a, s), BShl(b, s), <<>>), s)
BDivModSmall(d) == [q |-> BTrim(d.q), r |-> BFromInt(d.r)]
BDivMod(a, b) ==
    IF Len(b) = 1 THEN BDivModSmall(BDivDigit(a, b[1]))
    ELSE BDivModBy(a, b, 15 - SmallBitLen(b[Len(b)]))

NaN == [cls |-> "nan", sign |-> 1, man |-> <<>>, exp |-> 0]
Inf(s) == [cls |-> "inf", sign |-> s, man |-> <<>>, exp |-> 0]
Zero(s) == [cls |-> "finite", sign |-> s, man |-> <<>>, exp |-> 0]

isnan(x) == x.cls = "nan"
isfinite(x) == x.cls = "finite"
iszero(x) == x.cls = "finite" /\ x.man = <<>>

\* sign * n * 2^e for n # 0 with z zero bits below its lowest one bit
Odd(s, n, e, z) == [cls |-> "finite", sign |-> s, man |-> BShr(n, z), exp |-> e + z]

\* sign * n * 2^e for n # 0, the mantissa made odd
Finite(s, n, e) == Odd(s, n, e, BTrailingZeros(n))

\* the bits that n * 2^e has below the last bit a double keeps: those
\* past 53, or those below 2^-1074
RoundDrop(n, e) ==
    IF BBitLen(n) - 53 > -1074 - e THEN BBitLen(n) - 53 ELSE -1074 - e

\* n without its drop lowest bits is kept: it goes up when the bits
\* dropped are more than half of its last bit, or half of it and kept is
\* odd
RoundUp(n, drop, kept, sticky) ==
    /\ BBit(n, drop - 1) = 1
    /\ BLowBits(n, drop - 1) \/ sticky \/ BBit(kept, 0) = 1

\* sign * m * 2^e, which is inf from 2^1024 on
RoundFinite(s, m, e) ==
    IF m = <<>> THEN Zero(s)
    ELSE IF BBitLen(m) + e > 1024 THEN Inf(s)
    ELSE Finite(s, m, e)

RoundKept(s, n, e, sticky, drop, kept) ==
    RoundFinite(s, IF RoundUp(n, drop, kept, sticky) THEN BAdd(kept, <<1>>) ELSE kept,
                e + drop)

RoundBy(s, n, e, sticky, drop) ==
    IF drop <= 0 THEN RoundFinite(s, n, e)
    ELSE RoundKept(s, n, e, sticky, drop, BShr(n, drop))

\* the double nearest to sign * (n + t) * 2^e, where 0 <= t < 1 and sticky
\* tells whether t > 0 (then n has more than 54 bits): 53 bits are kept, or
\* fewer below 2^-1022, ties go to the even neighbour, and what reaches
\* 2^1024 is inf
Round(s, n, e, sticky) == RoundBy(s, n, e, sticky, RoundDrop(n, e))

\* float(n) of an int n
IntR(n) == IF n = 0 THEN Zero(1) ELSE Round(IF n < 0 THEN -1 ELSE 1, BFromInt(Abs(n)), 0, FALSE)

RNeg(x) == IF isnan(x) THEN x ELSE [x EXCEPT !.sign = -x.sign]

\* x * y; 0 * inf is nan
RMul(x, y) ==
    IF isnan(x) \/ isnan(y) THEN NaN
    ELSE IF ~isfinite(x) \/ ~isfinite(y)
    THEN (IF iszero(x) \/ iszero(y) THEN NaN ELSE Inf(x.sign * y.sign))
    ELSE Round(x.sign * y.sign, BMul(x.man, y.man), x.exp + y.exp, FALSE)

\* the double nearest to the quotient d.q with the remainder d.r, times 2^e
RoundQuotient(s, d, e) == Round(s, d.q, e, d.r # <<>>)

\* the bits the dividend is moved up by for the quotient to have 56 bits
DivShift(x, y) ==
    IF 56 + BBitLen(y.man) - BBitLen(x.man) > 0
    THEN 56 + BBitLen(y.man) - BBitLen(x.man) ELSE 0

\* x / y of two finite floats that are not zero
DivFinite(x, y, k) ==
    RoundQuotient(x.sign * y.sign, BDivMod(BShl(x.man, k), y.man), x.exp - y.exp - k)

\* x / y as numpy divides: a finite x # 0 over 0 is inf with the sign of
\* the two, 0 / 0 and inf / inf are nan, a finite x over inf is 0
RDiv(x, y) ==
    IF isnan(x) \/ isnan(y) THEN NaN
    ELSE IF ~isfinite(x) THEN (IF isfinite(y) THEN Inf(x.sign * y.sign) ELSE NaN)
    ELSE IF ~isfinite(y) THEN Zero(x.sign * y.sign)
    ELSE IF iszero(y) THEN (IF iszero(x) THEN NaN ELSE Inf(x.sign * y.sign))
    ELSE IF iszero(x) THEN Zero(x.sign * y.sign)
    ELSE DivFinite(x, y, DivShift(x, y))

\* the mantissa of x on the exponent e <= x.exp
Aligned(x, e) == BShl(x.man, x.exp - e)

\* |x| + |y| or |x| - |y|, as the signs tell, in units of 2^e
SumAt(x, y, e) ==
    IF x.sign = y.sign THEN BAdd(Aligned(x, e), Aligned(y, e))
    ELSE BSub(Aligned(x, e), Aligned(y, e))

\* a sum that is zero is +0
PositiveZero(x) == IF iszero(x) THEN Zero(1) ELSE x

SumNear(x, y, e) == PositiveZero(Round(x.sign, SumAt(x, y, e), e, FALSE))

\* x with k more bits, and one unit less when y pulls it towards zero
SumFar(x, y, k) ==
    Round(x.sign,
          IF x.sign = y.sign THEN BShl(x.man, k) ELSE BSub(BShl(x.man, k), <<1>>),
          x.exp - k, TRUE)

\* x + y for two finite floats that are not zero, x the one of larger
\* magnitude: when y lies more than 60 bits below x it only tells on
\* which side of x the sum is
AddFinite(x, y) ==
    IF (BBitLen(x.man) + x.exp) - (BBitLen(y.man) + y.exp) > 60
    THEN SumFar(x, y, 58 - BBitLen(x.man))
    ELSE SumNear(x, y, IF x.exp < y.exp THEN x.exp ELSE y.exp)

\* the magnitude of the finite x # 0 is below that of the finite y # 0
MagLess(x, y) ==
    LET tx == BBitLen(x.man) + x.exp
        ty == BBitLen(y.man) + y.exp
        e == IF x.exp < y.exp THEN x.exp ELSE y.exp
    IN  IF tx # ty THEN tx < ty
        ELSE BCmp(BShl(x.man, x.exp - e), BShl(y.man, y.exp - e)) < 0

\* x + y; inf + -inf is nan, and a sum that is zero is +0 unless both are -0
RAdd(x, y) ==
    IF isnan(x) \/ isnan(y) THEN NaN
    ELSE IF ~isfinite(x) THEN (IF ~isfinite(y) /\ x.sign # y.sign THEN NaN ELSE x)
    ELSE IF ~isfinite(y) THEN y
    ELSE IF iszero(x) /\ iszero(y) THEN Zero(IF x.sign = -1 /\ y.sign = -1 THEN -1 ELSE 1)
    ELSE IF iszero(x) THEN y
    ELSE IF iszero(y) THEN x
    ELSE AddFinite(IF MagLess(x, y) THEN y ELSE x, IF MagLess(x, y) THEN x ELSE y)

RSub(x, y) == RAdd(x, RNeg(y))

\* n / d of two ints as floats
Rat(n, d) == RDiv(IntR(n), IntR(d))

\* -1, 0 or 1 as x < y, x = y or x > y, for two floats that are not nan;
\* the two zeros are equal
RCmp(x, y) ==
    LET sx == IF iszero(x) THEN 0 ELSE x.sign
        sy == IF iszero(y) THEN 0 ELSE y.sign
        tx == BBitLen(x.man) + x.exp
        ty == BBitLen(y.man) + y.exp
        e == IF x.exp < y.exp THEN x.exp ELSE y.exp
        mag == IF ~isfinite(x) THEN (IF ~isfinite(y) THEN 0 ELSE 1)
               ELSE IF ~isfinite(y) THEN -1
               ELSE IF tx # ty THEN (IF tx < ty THEN -1 ELSE 1)
               ELSE BCmp(BShl(x.man, x.exp - e), BShl(y.man, y.exp - e))
    IN  IF sx # sy THEN (IF sx < sy THEN -1 ELSE 1)
        ELSE sx * mag

\* x < y and x <= y; every comparison with nan is False
RLt(x, y) == ~isnan(x) /\ ~isnan(y) /\ RCmp(x, y) < 0
RLe(x, y) == ~isnan(x) /\ ~isnan(y) /\ RCmp(x, y) <= 0

\* x == y of two floats
REq(x, y) == ~isnan(x) /\ ~isnan(y) /\ RCmp(x, y) = 0

RECURSIVE BToInt(_)
BToInt(a) == IF a = <<>> THEN 0 ELSE Head(a) + Base * BToInt(Tail(a))

\* int(math.floor(x)) of a finite x
RFloor(x) ==
    IF iszero(x) THEN 0
    ELSE IF x.exp >= 0 THEN x.sign * BToInt(BShl(x.man, x.exp))
    ELSE LET q == BToInt(BShr(x.man, -x.exp))
         IN  IF x.sign = 1 THEN q ELSE -q - 1

-----------------------------------------------------------------------------
(* Python's float(str).  A decimal digit of any script is read as its      *)
(* ASCII digit and surrounding whitespace is dropped; what is left is a    *)
(* sign, then inf, infinity or nan in any case, or a decimal number:       *)
(* digits with an optional period and an optional exponent, single         *)
(* underscores allowed between digits.  The value is the double nearest to *)
(* the decimal.                                                            *)

\* what float() raises for any other text
ValueError == [cls |-> "ValueError", sign |-> 1, man |-> <<>>, exp |-> 0]

\* the ASCII digit of a decimal digit
ascii_digit(c) == IF c = ArabicIndicThree THEN "3" ELSE c

\* the text is digits, with single underscores between digits only
IsDigitPart(t) ==
    /\ t # <<>>
    /\ t[1] \in Digits /\ t[Len(t)] \in Digits
    /\ \A k \in 1..Len(t) : t[k] \in Digits \cup {"_"}
    /\ \A k \in 1..(Len(t) - 1) : ~(t[k] = "_" /\ t[k + 1] = "_")

\* the digits of a digitpart (or of nothing)
without_underscores(t) == LET IsDigit(c) == c \in Digits IN SelectSeq(t, IsDigit)

\* the first place of t that holds a character of S, 0 when none does
find(t, S) ==
    IF \E k \in 1..Len(t) : t[k] \in S
    THEN CHOOSE k \in 1..Len(t) : t[k] \in S /\ \A j \in 1..(k - 1) : t[j] \notin S
    ELSE 0

\* a text of decimal digits from its first digit that is not 0
without_leading_zeros(t) ==
    IF find(t, Digits \ {"0"}) = 0 THEN <<>>
    ELSE SubSeq(t, find(t, Digits \ {"0"}), Len(t))

\* the value of one decimal digit
digit_value(c) ==
    CASE c = "0" -> 0 [] c = "1" -> 1 [] c = "2" -> 2 [] c = "3" -> 3 [] c = "4" -> 4
      [] c = "5" -> 5 [] c = "6" -> 6 [] c = "7" -> 7 [] c = "8" -> 8 [] c = "9" -> 9

\* 10^k
RECURSIVE Pow10(_)
Pow10(k) ==
    IF k = 0 THEN <<1>>
    ELSE IF k % 2 = 1 THEN BMulDigit(Pow10(k - 1), 10, 0)
    ELSE CHOOSE square \in {BMul(half, half) : half \in {Pow10(k \div 2)}} : TRUE

\* the natural number a text of decimal digits stands for, the digits
\* taken half by half
RECURSIVE decimal_value(_)
decimal_value(t) ==
    IF t = <<>> THEN <<>>
    ELSE IF Len(t) = 1 THEN BFromInt(digit_value(t[1]))
    ELSE LET low == Len(t) \div 2
         IN  BAdd(BMul(decimal_value(SubSeq(t, 1, Len(t) - low)), Pow10(low)),
                  decimal_value(SubSeq(t, Len(t) - low + 1, Len(t))))

\* a text of at most six decimal digits as an int
RECURSIVE int_of_digits(_)
int_of_digits(t) ==
    IF t = <<>> THEN 0
    ELSE 10 * int_of_digits(SubSeq(t, 1, Len(t) - 1)) + digit_value(t[Len(t)])

\* the double nearest to sign * digits * 10^e10, digits being a text of
\* decimal digits that begins with none of 0: with d the number of its
\* digits, the decimal lies from 10^(d - 1 + e10) to 10^(d + e10); from
\* 10^309 on it is above every double, and below 10^-324 it is nearer to 0
\* than to the smallest double
float_decimal(sign, digits, e10) ==
    IF digits = <<>> THEN Zero(sign)
    ELSE IF Len(digits) + e10 > 309 THEN Inf(sign)
    ELSE IF Len(digits) + e10 < -323 THEN Zero(sign)
    ELSE IF e10 >= 0
    THEN CHOOSE x \in {Round(sign, BMul(n, p), 0, FALSE) :
                           n \in {decimal_value(digits)}, p \in {Pow10(e10)}} : TRUE
    ELSE CHOOSE x \in {RDiv(Finite(sign, n, 0), Finite(1, p, 0)) :
                           n \in {decimal_value(digits)}, p \in {Pow10(-e10)}} : TRUE

\* the int an exponent text stands for, its sign apart; one of more than
\* six digits puts the decimal above every double or below the smallest
float_exponent(exp_text) ==
    IF Len(exp_text) > 6 THEN 1000000 ELSE int_of_digits(exp_text)

\* the float of integer part, fraction part and exponent, when they are
\* well formed
float_parts(sign, int_part, frac_part, has_exponent, exp_sign, exp_digits) ==
    IF /\ int_part = <<>> \/ IsDigitPart(int_part)
       /\ frac_part = <<>> \/ IsDigitPart(frac_part)
       /\ int_part # <<>> \/ frac_part # <<>>
       /\ ~has_exponent \/ IsDigitPart(exp_digits)
    THEN float_decimal(sign,
             without_leading_zeros(without_underscores(int_part \o frac_part)),
             exp_sign * float_exponent(without_leading_zeros(without_underscores(exp_digits)))
                 - Len(without_underscores(frac_part)))
    ELSE ValueError

\* the text before and the text after place k of t, the whole of t and
\* nothing when k = 0
before(t, k) == IF k = 0 THEN t ELSE SubSeq(t, 1, k - 1)
after(t, k) == IF k = 0 THEN <<>> ELSE SubSeq(t, k + 1, Len(t))

\* a text has a sign in front; the sign, and the text without it
is_signed(t) == t # <<>> /\ t[1] \in {"+", "-"}
sign_of(t) == IF is_signed(t) /\ t[1] = "-" THEN -1 ELSE 1
unsigned(t) == IF is_signed(t) THEN Tail(t) ELSE t

\* the float of a mantissa and an exponent, the exponent being the text
\* after the first e
float_number(sign, mantissa, has_exponent, exponent) ==
    float_parts(sign, before(mantissa, find(mantissa, {"."})),
                after(mantissa, find(mantissa, {"."})),
                has_exponent, sign_of(exponent), unsigned(exponent))

\* the float of a text without its sign
float_unsigned(sign, body) ==
    IF lower(body) \in {<<"i", "n", "f">>, <<"i", "n", "f", "i", "n", "i", "t", "y">>}
    THEN Inf(sign)
    ELSE IF lower(body) = <<"n", "a", "n">> THEN NaN
    ELSE float_number(sign, before(body, find(body, {"e", "E"})),
                      find(body, {"e", "E"}) # 0, after(body, find(body, {"e", "E"})))

float_stripped(s) == float_unsigned(sign_of(s), unsigned(s))

\* float(text)
float(text) == float_stripped(strip([k \in 1..Len(text) |-> ascii_digit(text[k])]))

-----------------------------------------------------------------------------
(* process_arbitrage.py: bucketing.                                        *)

ORDER == <<"01-05", "06-10", "11-20", "21-30", "31-45", "46-60">>

\* assign_bucket with its first range test off by one
assign_bucket_off_by_one(s) ==
    IF 1 <= s /\ s < 5 THEN "01-05"
    ELSE IF 6 <= s /\ s <= 10 THEN "06-10"
    ELSE IF 11 <= s /\ s <= 20 THEN "11-20"
    ELSE IF 21 <= s /\ s <= 30 THEN "21-30"
    ELSE IF 31 <= s /\ s <= 45 THEN "31-45"
    ELSE "46-60"

assign_bucket(s) ==
    IF 1 <= s /\ s <= 5 THEN "01-05"
    ELSE IF 6 <= s /\ s <= 10 THEN "06-10"
    ELSE IF 11 <= s /\ s <= 20 THEN "11-20"
    ELSE IF 21 <= s /\ s <= 30 THEN "21-30"
    ELSE IF 31 <= s /\ s <= 45 THEN "31-45"
    ELSE "46-60"

\* how far below 1 and above 60 the pick numbers tried reach
SlotMargin == 25

Slots == (1 - SlotMargin)..(60 + SlotMargin)

InitBucket ==
    /\ slot = 1
    /\ bucket = assign_bucket(1)

\* picks["bucket"] = picks["pick"].apply(assign_bucket), one pick at a time
AssignBucket ==
    /\ \E s \in Slots :
          /\ slot' = s
          /\ bucket' = assign_bucket(s)
    /\ UNCHANGED <<varsCanon, varsPricing, varsRecon, varsJoin, varsRetry,
                  varsFanout, varsBatch, varsMain, varsCache, varsWs>>

NextBucket == AssignBucket

-----------------------------------------------------------------------------
(* process_arbitrage.py: pandas' Series.median and Series.quantile.        *)

\* the sequence of F(s[k]), every element computed once
RECURSIVE Map(_, _)
Map(F(_), s) == IF s = <<>> THEN <<>> ELSE <<F(Head(s))>> \o Map(F, Tail(s))

RECURSIVE Insert(_, _)
Insert(x, s) ==
    IF s = <<>> THEN <<x>>
    ELSE IF RLe(x, Head(s)) THEN <<x>> \o s
    ELSE <<Head(s)>> \o Insert(x, Tail(s))

RECURSIVE Sorted(_)
Sorted(s) == IF s = <<>> THEN <<>> ELSE Insert(Head(s), Sorted(Tail(s)))

\* the values of a column that are not missing (skipna)
dropna(s) == LET NotNa(x) == ~isnan(x) IN SelectSeq(s, NotNa)

\* the literals 0.25, 0.5 and 0.75
q_25 == Rat(1, 4)
q_50 == Rat(1, 2)
q_75 == Rat(3, 4)

\* numpy's _lerp(a, b, t): a + (b - a) * t, and b - (b - a) * (1 - t) when
\* t >= 0.5
lerp_by(a, b, t, diff_b_a) ==
    IF RLe(q_50, t) THEN RSub(b, RMul(diff_b_a, RSub(IntR(1), t)))
    ELSE RAdd(a, RMul(diff_b_a, t))
lerp(a, b, t) == lerp_by(a, b, t, RSub(b, a))

\* Series.quantile(q): missing values are left out; numpy's percentile with
\* linear interpolation between the two closest ranks, the virtual index
\* being (n - 1) * q; nan when no value is left
quantile_between(v, virtual_index, previous_index) ==
    lerp(v[previous_index + 1],
         v[(IF previous_index + 1 > Len(v) - 1 THEN Len(v) - 1
            ELSE previous_index + 1) + 1],
         RSub(virtual_index, IntR(previous_index)))
quantile_at(v, virtual_index) == quantile_between(v, virtual_index, RFloor(virtual_index))
quantile_sorted(v, q) ==
    IF v = <<>> THEN NaN ELSE quantile_at(v, RMul(IntR(Len(v) - 1), q))
quantile(s, q) == quantile_sorted(Sorted(dropna(s)), q)

\* Series.quantile([q, ...]): the quantile of each q
quantiles(s, qs) == [k \in 1..Len(qs) |-> quantile(s, qs[k])]

\* Series.median(): missing values are left out; the middle value, or the
\* mean of the two middle values; nan when no value is left
median_sorted(v) ==
    IF Len(v) = 0 THEN NaN
    ELSE IF Len(v) % 2 = 1 THEN v[(Len(v) + 1) \div 2]
    ELSE RDiv(RAdd(v[Len(v) \div 2], v[Len(v) \div 2 + 1]), IntR(2))
median(s) == median_sorted(Sorted(dropna(s)))

-----------------------------------------------------------------------------
(* process_arbitrage.py: prepare_pick_costs and build_bucket_table.        *)

\* prepare_pick_costs, on the rows read from pick_outcomes_first4.csv
positive_war(r) == RLt(IntR(0), r.war_first4)
with_pick_costs(r) ==
    [pick |-> r.pick,
     war_first4 |-> r.war_first4,
     cost_first4 |-> r.cost_first4,
     bucket |-> assign_bucket(r.pick),
     cost_per_war_per_season |-> RDiv(RDiv(r.cost_first4, r.war_first4), IntR(4)),
     war_per_season |-> RDiv(r.war_first4, IntR(4))]
prepare_pick_costs(rows) == Map(with_pick_costs, SelectSeq(rows, positive_war))

\* delta = 0.07
delta == Rat(7, 100)

\* 1 - delta and 1 + delta, as the doubles the two expressions give
low_factor == RSub(IntR(1), delta)
high_factor == RAdd(IntR(1), delta)

\* zone(row) with the comparisons made non-strict
zone_non_strict(row, bnd) ==
    IF RLe(row.median, RMul(bnd.q25, low_factor)) THEN "BUY"
    ELSE IF RLe(RMul(bnd.q75, high_factor), row.median) THEN "SELL"
    ELSE "NEUTRAL"

\* zone(row) with the two labels exchanged
zone_labels_exchanged(row, bnd) ==
    IF RLt(row.median, RMul(bnd.q25, low_factor)) THEN "SELL"
    ELSE IF RLt(RMul(bnd.q75, high_factor), row.median) THEN "BUY"
    ELSE "NEUTRAL"

\* the inner function zone(row) of build_bucket_table: two comparisons of
\* doubles, each threshold being the product the code rounds, so that a
\* median of 1819/175/4 is above the threshold of a q75 of 17/7, the two
\* being one real number and two doubles
zone(row, bnd) ==
    IF RLt(row.median, RMul(bnd.q25, low_factor)) THEN "BUY"
    ELSE IF RLt(RMul(bnd.q75, high_factor), row.median) THEN "SELL"
    ELSE "NEUTRAL"

\* the values of one column over the rows of one group of picks.groupby("bucket")
GroupColumn(picks, b, col) ==
    LET InGroup(r) == r.bucket = b
        Value(r) == r[col]
    IN  Map(Value, SelectSeq(picks, InGroup))

\* the group keys, sorted as groupby sorts them
GroupKeys(picks) ==
    LET Present(b) == \E k \in 1..Len(picks) : picks[k].bucket = b
    IN  SelectSeq(ORDER, Present)

\* surplus_4yr with the subtraction the wrong way round
surplus_reversed(war_med, cost_med, bnd) == RSub(cost_med, RMul(war_med, bnd.q50))

\* table["surplus_4yr"] = table["market_equiv_cost_4yr"] - table["cost_med"]
surplus_4yr(war_med, cost_med, bnd) == RSub(RMul(war_med, bnd.q50), cost_med)

\* one row of the table build_bucket_table returns
JoinedRow(b, bnd, stats, war_med, cost_med) ==
    [bucket |-> b,
     median |-> stats.median,
     q25 |-> stats.q25,
     q75 |-> stats.q75,
     war_med |-> war_med,
     cost_med |-> cost_med,
     market_q25 |-> bnd.q25,
     market_q50 |-> bnd.q50,
     market_q75 |-> bnd.q75,
     arbitrage_zone |-> zone(stats, bnd),
     market_equiv_cost_4yr |-> RMul(war_med, bnd.q50),
     surplus_4yr |-> surplus_4yr(war_med, cost_med, bnd)]

\* the statistics of the cost per war per season of one group
GroupStats(cpw) ==
    [median |-> median(cpw), q25 |-> quantile(cpw, q_25), q75 |-> quantile(cpw, q_75)]

BucketRow(picks, b, bnd) ==
    JoinedRow(b, bnd, GroupStats(GroupColumn(picks, b, "cost_per_war_per_season")),
              median(GroupColumn(picks, b, "war_first4")),
              median(GroupColumn(picks, b, "cost_first4")))

BucketRows(picks, bnd, keys) == [k \in 1..Len(keys) |-> BucketRow(picks, keys[k], bnd)]

\* build_bucket_table(picks, band)
build_bucket_table(picks, bnd) == BucketRows(picks, bnd, GroupKeys(picks))

-----------------------------------------------------------------------------
(* The pricing engine as a state machine.  Money is in dollars.  A row is   *)
(* appended to the pick-outcome file, or the market band changes (another  *)
(* scenario), and the bucket table is built again from the file, as main() *)
(* does.                                                                   *)

MaxPicks == 3

PickRecord(p, w, c) == [pick |-> p, war_first4 |-> IntR(w), cost_first4 |-> IntR(c)]

\* the rows tried: a pick of the first bucket with no window war, with costs
\* per war per season of 372,000, 2,000,000 and 1,000,000 dollars and of
\* 1819/175/4 dollars, and a pick past the last slot with costs per war per
\* season of 428,000 and 2,000,000 dollars
PickRows ==
    {PickRecord(3, 0, 8000000), PickRecord(3, 1, 1488000),
     PickRecord(3, 1, 8000000), PickRecord(3, 2, 8000000),
     PickRecord(3, 175, 1819),
     PickRecord(61, 1, 1712000), PickRecord(61, 1, 8000000)}

Band(a, b, c) == [q25 |-> IntR(a), q50 |-> IntR(b), q75 |-> IntR(c)]

\* the band of a market of one row of 17 dollars for 7 wins
OneRowBand == [q25 |-> Rat(17, 7), q50 |-> Rat(17, 7), q75 |-> Rat(17, 7)]

Bands ==
    {Band(3000000, 4000000, 5000000), Band(400000, 400000, 400000),
     Band(400000, 500000, 900000), OneRowBand}

InitPricing ==
    /\ pick_outcomes = <<>>
    /\ band = Band(3000000, 4000000, 5000000)
    /\ table = <<>>

AppendPick ==
    /\ Len(pick_outcomes) < MaxPicks
    /\ \E r \in PickRows : pick_outcomes' = Append(pick_outcomes, r)
    /\ band' = band
    /\ \E picks \in {prepare_pick_costs(pick_outcomes')} :
          table' = build_bucket_table(picks, band')
    /\ UNCHANGED <<varsCanon, varsBucket, varsRecon, varsJoin, varsRetry,
                  varsFanout, varsBatch, varsMain, varsCache, varsWs>>

SetBand ==
    /\ \E b \in Bands \ {band} : band' = b
    /\ pick_outcomes' = pick_outcomes
    /\ \E picks \in {prepare_pick_costs(pick_outcomes')} :
          table' = build_bucket_table(picks, band')
    /\ UNCHANGED <<varsCanon, varsBucket, varsRecon, varsJoin, varsRetry,
                  varsFanout, varsBatch, varsMain, varsCache, varsWs>>

NextPricing == AppendPick \/ SetBand

-----------------------------------------------------------------------------
(* Salary reconciliation: groupby([player, season_end])["salary"].max() in *)
(* build_data.load_salary_data, build_salaries_realgm.fetch_league_salaries *)
(* and realgm_salaries.get_league_salaries.                                *)

\* the characters in code point order, which is how Python compares strings
CodePoints ==
    <<Tab, " ", "$", "'", ",", "-", ".">> \o
    <<"0", "1", "2", "3", "4", "5", "6", "7", "8", "9">> \o
    ascii_uppercase \o <<"_">> \o ascii_lowercase \o
    <<ECapitalAcute, OCapitalStroke, EAcute, OStroke, DotlessI, CombiningAcute>>

ord(c) == CHOOSE k \in 1..Len(CodePoints) : CodePoints[k] = c

\* a < b for two strs
RECURSIVE StrLess(_, _)
StrLess(a, b) ==
    IF b = <<>> THEN FALSE
    ELSE IF a = <<>> THEN TRUE
    ELSE IF Head(a) = Head(b) THEN StrLess(Tail(a), Tail(b))
    ELSE ord(Head(a)) < ord(Head(b))

\* a < b for two group keys <<name, season_end>>
KeyLess(a, b) == StrLess(a[1], b[1]) \/ (a[1] = b[1] /\ a[2] < b[2])

\* the distinct keys of the rows, in the order groupby(sort=True) yields them
RECURSIVE SortKeys(_)
SortKeys(ks) ==
    IF ks = {} THEN <<>>
    ELSE LET least == CHOOSE k \in ks : \A j \in ks \ {k} : KeyLess(k, j)
         IN  <<least>> \o SortKeys(ks \ {least})

\* the aggregate keeps the first value of each group instead of the largest
agg_first(vals) == Head(vals)

\* SeriesGroupBy.max() of a float64 column without NaN: the largest value
\* of one group, scanned in row order
RECURSIVE agg_max(_)
agg_max(vals) ==
    IF Len(vals) = 1 THEN vals[1]
    ELSE LET rest == agg_max(Tail(vals))
         IN  IF RLe(rest, Head(vals)) THEN Head(vals) ELSE rest

\* rows.groupby([name, "season_end"], as_index=False)["salary"].max(), the
\* rows given as <<name, season_end, salary>>
groupby_max(rows) ==
    LET keys == SortKeys({<<rows[k][1], rows[k][2]>> : k \in 1..Len(rows)})
        Group(key) ==
            LET InGroup(r) == <<r[1], r[2]>> = key
                grp == SelectSeq(rows, InGroup)
            IN  [k \in 1..Len(grp) |-> grp[k][3]]
    IN  [k \in 1..Len(keys) |-> <<keys[k][1], keys[k][2], agg_max(Group(keys[k]))>>]

\* start_season and end_season of load_salary_data
START_SEASON == 2016
END_SEASON == 2024

\* the cells pd.read_csv takes for missing by default: the empty cell and
\* #N/A, #N/A N/A, #NA, -1.#IND, -1.#QNAN, -NaN, -nan, 1.#IND, 1.#QNAN,
\* <NA>, N/A, NA, NULL, NaN, None, n/a, nan, null
na_values ==
    {<<>>, <<"#", "N", "/", "A">>,
     <<"#", "N", "/", "A", " ", "N", "/", "A">>, <<"#", "N", "A">>,
     <<"-", "1", ".", "#", "I", "N", "D">>,
     <<"-", "1", ".", "#", "Q", "N", "A", "N">>, <<"-", "N", "a", "N">>,
     <<"-", "n", "a", "n">>, <<"1", ".", "#", "I", "N", "D">>,
     <<"1", ".", "#", "Q", "N", "A", "N">>, <<"<", "N", "A", ">">>,
     <<"N", "/", "A">>, <<"N", "A">>, <<"N", "U", "L", "L">>,
     <<"N", "a", "N">>, <<"N", "o", "n", "e">>, <<"n", "/", "a">>,
     <<"n", "a", "n">>, <<"n", "u", "l", "l">>}

\* a text field of a csv as pd.read_csv returns it: a missing cell is NaN
read_csv_str(s) == IF s \in na_values THEN PyNaN ELSE PyStr(s)

\* "canonical_name" in salary.columns, the rows of one file having the same
\* columns
has_canonical_name(rows) == rows # <<>> /\ "canonical_name" \in DOMAIN rows[1]

\* load_salary_data, on the rows of the csv, which has the columns player,
\* season_end, salary and perhaps canonical_name: the canonical name is
\* taken from the file when the file has the column and computed from
\* player when it has not; groupby leaves out the rows whose key is NaN.
\* The result has the columns canonical_name, season_end, salary
load_salary_data(rows) ==
    LET canonical_name(r) ==
            IF has_canonical_name(rows) THEN read_csv_str(r.canonical_name)
            ELSE _canonicalize(read_csv_str(r.player))
        InRange(r) == r.season_end >= START_SEASON /\ r.season_end <= END_SEASON
        HasKey(r) == canonical_name(r) # PyNaN
        grouped == SelectSeq(SelectSeq(rows, InRange), HasKey)
    IN  groupby_max([k \in 1..Len(grouped) |->
                        <<canonical_name(grouped[k]).val, grouped[k].season_end,
                          grouped[k].salary>>])

\* an int, as the conversion of a text returns it
PyInt(n) == [cls |-> "int", val |-> n]

\* the int of a text without whitespace around it: an optional sign and
\* decimal digits, single underscores allowed between digits; ValueError
\* for any other text, the empty one included
int_stripped(s) ==
    IF IsDigitPart(unsigned(s))
    THEN PyInt(sign_of(s) * int_of_digits(without_underscores(unsigned(s))))
    ELSE ValueError

\* .astype(int) of one str of an object column, for a text of at most six
\* digits: int(text)
astype_int(text) == int_stripped(strip([k \in 1..Len(text) |-> ascii_digit(text[k])]))

\* .str.slice(0, 4) of one str
str_slice_4(text) == SubSeq(text, 1, IF Len(text) < 4 THEN Len(text) ELSE 4)

\* df["season"].astype(str).str.slice(0, 4).astype(int), for one text: the
\* int, or the ValueError astype raises
season_slice_int(text) == astype_int(str_slice_4(text))

\* MONEY_RE.sub("", value): the characters 0-9 and the period are kept
sub_money(text) == LET Kept(c) == c \in Digits \cup {"."} IN SelectSeq(text, Kept)

\* float(cleaned) if cleaned else 0.0
float_or_zero(cleaned) == IF cleaned = <<>> THEN Zero(1) ELSE float(cleaned)

\* _clean_salary of a str: the float, or the ValueError float() raises
_clean_salary(text) == float_or_zero(sub_money(text))

\* the row main writes for a player, the int of its season and its cleaned
\* salary; a ValueError of either conversion leaves main
ingest_with(player, season, cleaned) ==
    IF season = ValueError \/ cleaned = ValueError THEN ValueError
    ELSE [player |-> player,
          canonical_name |-> _canonicalize(PyStr(player)).val,
          season_end |-> season.val,
          salary |-> cleaned]

\* ingest_salaries_from_kaggle.main, for one row [Player, Season, Salary]
\* of the Kaggle file: the row it writes to data/player_salary.csv, or the
\* ValueError it ends with before it writes
ingest_row(kr) ==
    ingest_with(strip(sub_whitespace(kr.Player)), season_slice_int(kr.Season),
                _clean_salary(kr.Salary))

\* fetch_league_salaries after the fan-out, on the concatenated team tables;
\* the result has the columns player, season_end, salary
league_reconcile(rows) ==
    IF rows = <<>> THEN <<>>
    ELSE groupby_max([k \in 1..Len(rows) |->
                        <<rows[k].player, rows[k].season_end, rows[k].salary>>])

-----------------------------------------------------------------------------
(* Reconciliation as a state machine: a salary row is reported (appended   *)
(* to the file, or to the concatenated team tables) and both tables are    *)
(* reconciled again.                                                       *)

MaxSalaryRows == 3

\* two spellings of one player, and another player
PlayerNames == { <<"e">>, <<EAcute>>, <<"j">> }

\* a row [player, season_end, salary] of v dollars, the salary a float as
\* _clean_money returns it
SalaryRow(n, y, v) == [player |-> n, season_end |-> y, salary |-> IntR(v)]

SalaryRows ==
    {SalaryRow(n, y, v) : n \in PlayerNames, y \in {2016, 2017}, v \in {100, 200}}
    \cup {SalaryRow(<<"e">>, 2015, 300), SalaryRow(<<"N", "A">>, 2016, 100)}

InitRecon ==
    /\ salary_csv = <<>>
    /\ salary_clean = <<>>
    /\ league = <<>>
    /\ ingest_error = ""

\* the rows of the Kaggle file tried: two spellings of one player, one
\* of them with a tab and a space behind it, a player whose name is a
\* suffix only, a salary cell without a number, a season out of range, a
\* missing player, a salary with a period, and the cells either conversion
\* raises for: a salary with two periods or with a period only, and a
\* missing season
KaggleRows ==
    {[Player |-> n, Season |-> <<"2", "0", "1", "6", "-", "1", "7">>, Salary |-> v] :
        n \in {<<EAcute>>, <<"e", Tab, " ">>, <<"J", "r">>},
        v \in {<<"$", "1", "0", "0">>, <<"$", "2", "0", "0">>}}
    \cup {[Player |-> <<"e">>, Season |-> <<"2", "0", "1", "7", "-", "1", "8">>,
           Salary |-> <<"n", "a", "n">>],
          [Player |-> <<"e">>, Season |-> <<"2", "0", "1", "5", "-", "1", "6">>,
           Salary |-> <<"$", "3", "0", "0">>],
          [Player |-> <<"n", "a", "n">>, Season |-> <<"2", "0", "1", "6", "-", "1", "7">>,
           Salary |-> <<"$", "1", "0", "0">>],
          [Player |-> <<"e">>, Season |-> <<"2", "0", "1", "6">>,
           Salary |-> <<"$", "1", "0", "0", ".", "5">>],
          [Player |-> <<"e">>, Season |-> <<"2", "0", "1", "6">>,
           Salary |-> <<"1", ".", "2", ".", "3">>],
          [Player |-> <<"e">>, Season |-> <<"2", "0", "1", "6">>,
           Salary |-> <<"$", ".">>],
          [Player |-> <<"e">>, Season |-> <<"n", "a", "n">>,
           Salary |-> <<"$", "1", "0", "0">>]}

\* ingest_salaries_from_kaggle.main on the Kaggle file of the rows written
\* so far and one more row: a ValueError of a conversion leaves main before
\* player_salary.csv is written; otherwise the file, written with a
\* canonical_name column, has the row more, and the tables are reconciled
\* again
IngestKaggle ==
    /\ Len(salary_csv) < MaxSalaryRows
    /\ salary_csv = <<>> \/ has_canonical_name(salary_csv)
    /\ \E kr \in KaggleRows : \E written \in {ingest_row(kr)} :
          IF written = ValueError
          THEN /\ ingest_error' = "ValueError"
               /\ UNCHANGED <<salary_csv, salary_clean, league>>
          ELSE /\ ingest_error' = ""
               /\ salary_csv' = Append(salary_csv, written)
               /\ salary_clean' = load_salary_data(salary_csv')
               /\ league' = league_reconcile(salary_csv')
    /\ UNCHANGED <<varsCanon, varsBucket, varsPricing, varsJoin, varsRetry,
                  varsFanout, varsBatch, varsMain, varsCache, varsWs>>

\* a row is reported to a player_salary.csv without a canonical_name column
ReportSalary ==
    /\ Len(salary_csv) < MaxSalaryRows
    /\ ~has_canonical_name(salary_csv)
    /\ \E r \in SalaryRows : salary_csv' = Append(salary_csv, r)
    /\ salary_clean' = load_salary_data(salary_csv')
    /\ league' = league_reconcile(salary_csv')
    /\ ingest_error' = ""
    /\ UNCHANGED <<varsCanon, varsBucket, varsPricing, varsJoin, varsRetry,
                  varsFanout, varsBatch, varsMain, varsCache, varsWs>>

NextRecon == ReportSalary \/ IngestKaggle

-----------------------------------------------------------------------------
(* build_data.py: build_pick_outcomes.                                     *)

\* Series.to_dict() of a table indexed by its first two columns, read with
\* dict.get(key, 0.0): the value of the last row that has the key, else zero
lookup_get(rows, key) ==
    LET hits == {k \in 1..Len(rows) : <<rows[k][1], rows[k][2]>> = key}
    IN  IF hits = {} THEN 0
        ELSE rows[CHOOSE k \in hits : \A j \in hits : j <= k][3]

\* range(draft_year + 1, draft_year + 1 + rookie_years) with the window
\* starting at the draft season itself
window_from_draft_year(draft_year, rookie_years) ==
    [k \in 1..rookie_years |-> draft_year + k - 1]

\* range(draft_year + 1, draft_year + 1 + rookie_years)
window(draft_year, rookie_years) ==
    [k \in 1..rookie_years |-> draft_year + k]

\* the loop over the window: the sum of lookup.get((name, season_end), 0.0)
RECURSIVE window_sum(_, _, _)
window_sum(rows, who, seasons) ==
    IF seasons = <<>> THEN 0
    ELSE lookup_get(rows, <<who, Head(seasons)>>) + window_sum(rows, who, Tail(seasons))

\* build_pick_outcomes(draft, war, salary, rookie_years); war rows are
\* <<player_slug, season_end, war>>, salary rows <<canonical_name,
\* season_end, salary>>
build_pick_outcomes(d, w, sal, rookie_years) ==
    [k \in 1..Len(d) |->
        [draft_year |-> d[k].season_end,
         pick |-> d[k].pick,
         player_slug |-> d[k].player_slug,
         player_name |-> d[k].player_name,
         canonical_name |-> d[k].canonical_name,
         war_first4 |->
             window_sum(w, d[k].player_slug, window(d[k].season_end, rookie_years)),
         cost_first4 |->
             window_sum(sal, d[k].canonical_name, window(d[k].season_end, rookie_years))]]

\* rookie_years: int = 4
ROOKIE_YEARS == 4

-----------------------------------------------------------------------------
(* The join as a state machine: a row is added to the draft, the war or    *)
(* the salary table and the pick outcomes are built again.  War is in      *)
(* tenths of a win, salary in units of $10,000.                            *)

MaxJoinRows == 4

\* a draft row as build_draft_data leaves it, canonical_name included
DraftRow(y, p, slug, player) ==
    [season_end |-> y, pick |-> p, player_slug |-> slug,
     player_name |-> player,
     canonical_name |-> _canonicalize(PyStr(player)).val]

DraftRows == {DraftRow(2016, 3, "p01", <<EAcute>>), DraftRow(2016, 31, "q01", <<"j">>)}

\* the seasons around the two ends of the window of a 2016 draftee
JoinSeasons == {2016, 2017, 2020, 2021}

WarRows ==
    {<<"p01", y, 20>> : y \in JoinSeasons} \cup {<<"p01", 2017, -5>>, <<"q01", 2017, 30>>}

SalRows ==
    {<<(<<"e">>), y, 100>> : y \in JoinSeasons}
    \cup {<<(<<"e">>), 2017, 50>>, <<(<<"j">>), 2017, 300>>}

InitJoin ==
    /\ draft = <<>>
    /\ war = <<>>
    /\ salary = <<>>
    /\ outcomes = <<>>

JoinSize == Len(draft) + Len(war) + Len(salary)

AddDraft ==
    /\ JoinSize < MaxJoinRows
    /\ \E r \in DraftRows : draft' = Append(draft, r)
    /\ UNCHANGED <<war, salary>>
    /\ outcomes' = build_pick_outcomes(draft', war', salary', ROOKIE_YEARS)
    /\ UNCHANGED <<varsCanon, varsBucket, varsPricing, varsRecon, varsRetry,
                  varsFanout, varsBatch, varsMain, varsCache, varsWs>>

AddWar ==
    /\ JoinSize < MaxJoinRows
    /\ \E r \in WarRows : war' = Append(war, r)
    /\ UNCHANGED <<draft, salary>>
    /\ outcomes' = build_pick_outcomes(draft', war', salary', ROOKIE_YEARS)
    /\ UNCHANGED <<varsCanon, varsBucket, varsPricing, varsRecon, varsRetry,
                  varsFanout, varsBatch, varsMain, varsCache, varsWs>>

AddSalary ==
    /\ JoinSize < MaxJoinRows
    /\ \E r \in SalRows : salary' = Append(salary, r)
    /\ UNCHANGED <<draft, war>>
    /\ outcomes' = build_pick_outcomes(draft', war', salary', ROOKIE_YEARS)
    /\ UNCHANGED <<varsCanon, varsBucket, varsPricing, varsRecon, varsRetry,
                  varsFanout, varsBatch, varsMain, varsCache, varsWs>>

NextJoin == AddDraft \/ AddWar \/ AddSalary

-----------------------------------------------------------------------------
(* _request_with_retry in bbr_cap.py, bbr_ws.py, bbr_draft.py and          *)
(* bbr_player_salaries.py: the same loop with its own constants, ending by *)
(* raising (cap, ws) or by returning None (draft, player).                 *)

Fetchers == {"bbr_cap", "bbr_ws", "bbr_draft", "bbr_player_salaries"}

\* max_attempts: int = 5 | 7 | 6 | 6
max_attempts(f) ==
    CASE f = "bbr_cap" -> 5
      [] f = "bbr_ws" -> 7
      [] f = "bbr_draft" -> 6
      [] f = "bbr_player_salaries" -> 6

\* backoff: float = 1.5 | 1.6 | 1.5 | 1.4
backoff(f) ==
    CASE f = "bbr_cap" -> Rat(3, 2)
      [] f = "bbr_ws" -> Rat(8, 5)
      [] f = "bbr_draft" -> Rat(3, 2)
      [] f = "bbr_player_salaries" -> Rat(7, 5)

\* delay = 0.5 | 2.0 | 1.5 | 1.0
initial_delay(f) ==
    CASE f = "bbr_cap" -> Rat(1, 2)
      [] f = "bbr_ws" -> IntR(2)
      [] f = "bbr_draft" -> Rat(3, 2)
      [] f = "bbr_player_salaries" -> IntR(1)

\* the cap in min(delay * backoff, 5.0 | 10.0 | 8.0 | 8.0)
delay_cap(f) ==
    CASE f = "bbr_cap" -> IntR(5)
      [] f = "bbr_ws" -> IntR(10)
      [] f = "bbr_draft" -> IntR(8)
      [] f = "bbr_player_salaries" -> IntR(8)

\* after the loop: last_response.raise_for_status() (cap, ws), or return None
raises_when_exhausted(f) == f \in {"bbr_cap", "bbr_ws"}

RMin(x, y) == IF RLe(x, y) THEN x ELSE y

\* delay = delay * backoff, the cap forgotten
next_delay_uncapped(f, d) == RMul(d, backoff(f))

\* delay = min(delay * backoff, cap)
next_delay(f, d) == RMin(RMul(d, backoff(f)), delay_cap(f))

\* Response.ok: the status is below 400
ok(r) == r.status_code < 400

\* the loop written as range(max_attempts + 1)
loop_continues_one_more(f, n) == n <= max_attempts(f)

\* for _ in range(max_attempts): another iteration follows n of them
loop_continues(f, n) == n < max_attempts(f)

\* what a GET can come back with: a status, or requests raising (a timeout,
\* a refused connection)
Statuses == {200, 404, 429, 503}
Response(code) == [raised |-> FALSE, status_code |-> code]
ConnectionError == [raised |-> TRUE, status_code |-> 0]
Replies == {Response(code) : code \in Statuses} \cup {ConnectionError}

\* the columns of the table each fetcher returns
columns(f) ==
    CASE f = "bbr_cap" -> <<"season", "season_start", "cap">>
      [] f = "bbr_ws" -> <<"player_slug", "player_name", "ws", "season_end">>
      [] f = "bbr_draft" -> <<"season_end", "pick", "team", "player_name", "player_slug">>
      [] f = "bbr_player_salaries" -> <<"player_slug", "season_end", "salary">>

\* what a fetcher hands to its caller: a table (its columns and its number
\* of rows) or an exception
DataFrame(cols, n) == [kind |-> "table", columns |-> cols, rows |-> n, error |-> ""]
Raised(e) == [kind |-> "raised", columns |-> <<>>, rows |-> 0, error |-> e]
NotCalled == [kind |-> "none", columns |-> <<>>, rows |-> 0, error |-> ""]

\* the page of a successful response: without the expected table, with the
\* table but without the expected columns (cells), with the table and no
\* data row, or with data rows
Pages == {"no_table", "no_columns", "no_rows", "rows"}

\* the exception _request_with_retry left the fetcher with, if any
Propagated(res) ==
    IF res = "HTTPError" THEN Raised("HTTPError") ELSE Raised("ConnectionError")

\* bbr_cap.get_cap_history, given how _request_with_retry ended
get_cap_history(res, pg) ==
    IF res # "returned" THEN Propagated(res)
    ELSE IF pg = "no_table"
    THEN Raised("ValueError: Failed to locate cap history table on Basketball Reference")
    ELSE IF pg = "no_columns"
    THEN Raised("ValueError: Unexpected cap history table schema")
    ELSE DataFrame(columns("bbr_cap"), IF pg = "rows" THEN 1 ELSE 0)

\* bbr_ws.fetch_season_win_shares
fetch_season_win_shares(res, pg) ==
    IF res # "returned" THEN Propagated(res)
    ELSE IF pg = "no_table"
    THEN Raised("ValueError: Advanced stats table not found for season")
    ELSE IF pg \in {"no_columns", "no_rows"}
    THEN Raised("ValueError: No rows parsed for season")
    ELSE DataFrame(columns("bbr_ws"), 1)

\* fetch_draft_class with the sentinel None not tested for
fetch_draft_class_unguarded(res, pg) ==
    IF res = "exception" THEN Propagated(res)
    ELSE IF res = "None" THEN Raised("AttributeError")
    ELSE IF pg = "no_table" THEN DataFrame(columns("bbr_draft"), 0)
    ELSE IF pg \in {"no_columns", "no_rows"} THEN DataFrame(<<>>, 0)
    ELSE DataFrame(columns("bbr_draft"), 1)

\* bbr_draft.fetch_draft_class; pd.DataFrame(rows) of no rows has no columns
fetch_draft_class(res, pg) ==
    IF res = "exception" THEN Propagated(res)
    ELSE IF res = "None" THEN DataFrame(columns("bbr_draft"), 0)
    ELSE IF pg = "no_table" THEN DataFrame(columns("bbr_draft"), 0)
    ELSE IF pg \in {"no_columns", "no_rows"} THEN DataFrame(<<>>, 0)
    ELSE DataFrame(columns("bbr_draft"), 1)

\* bbr_player_salaries.fetch_player_salaries, for a non-empty slug
fetch_player_salaries(res, pg) ==
    IF res = "exception" THEN Propagated(res)
    ELSE IF res = "None" THEN DataFrame(columns("bbr_player_salaries"), 0)
    ELSE IF pg \in {"no_table", "no_columns"}
    THEN DataFrame(columns("bbr_player_salaries"), 0)
    ELSE DataFrame(columns("bbr_player_salaries"), IF pg = "rows" THEN 1 ELSE 0)

\* the fetcher of module f, run on from the end of its _request_with_retry
fetch(f, res, pg) ==
    CASE f = "bbr_cap" -> get_cap_history(res, pg)
      [] f = "bbr_ws" -> fetch_season_win_shares(res, pg)
      [] f = "bbr_draft" -> fetch_draft_class(res, pg)
      [] f = "bbr_player_salaries" -> fetch_player_salaries(res, pg)

InitRetry ==
    /\ fetcher = "bbr_cap"
    /\ pc = "idle"
    /\ attempts = 0
    /\ delay = initial_delay("bbr_cap")
    /\ sleeps = <<>>
    /\ responses = <<>>
    /\ result = "none"
    /\ page = "none"
    /\ fetched = NotCalled

\* a fetcher is called and calls _request_with_retry(url): delay is set, the
\* loop is entered
Call ==
    /\ pc \in {"idle", "finished"}
    /\ \E f \in Fetchers :
          /\ fetcher' = f
          /\ delay' = initial_delay(f)
          /\ pc' = IF loop_continues(f, 0) THEN "sleep" ELSE "done"
    /\ attempts' = 0
    /\ sleeps' = <<>>
    /\ responses' = <<>>
    /\ result' = "none"
    /\ page' = "none"
    /\ fetched' = NotCalled
    /\ UNCHANGED <<varsCanon, varsBucket, varsPricing, varsRecon, varsJoin,
                  varsFanout, varsBatch, varsMain, varsCache, varsWs>>

\* time.sleep(delay)
Sleep ==
    /\ pc = "sleep"
    /\ sleeps' = Append(sleeps, delay)
    /\ pc' = "get"
    /\ UNCHANGED <<fetcher, attempts, delay, responses, result, page, fetched>>
    /\ UNCHANGED <<varsCanon, varsBucket, varsPricing, varsRecon, varsJoin,
                  varsFanout, varsBatch, varsMain, varsCache, varsWs>>

\* the loop is left without a response returned
Exhausted == IF raises_when_exhausted(fetcher) THEN "HTTPError" ELSE "None"

\* requests.get(...) and the rest of the loop body
Get ==
    /\ pc = "get"
    /\ attempts' = attempts + 1
    /\ \E r \in Replies :
          /\ responses' = Append(responses, r)
          /\ IF r.raised
             THEN /\ result' = "exception"
                  /\ pc' = "done"
                  /\ delay' = delay
             ELSE IF r.status_code = 429
             THEN /\ delay' = next_delay(fetcher, delay)
                  /\ IF loop_continues(fetcher, attempts')
                     THEN pc' = "sleep" /\ result' = result
                     ELSE pc' = "done" /\ result' = Exhausted
             ELSE IF ok(r)
             THEN /\ result' = "returned"
                  /\ pc' = "done"
                  /\ delay' = delay
             ELSE /\ delay' = next_delay(fetcher, delay)
                  /\ IF loop_continues(fetcher, attempts')
                     THEN pc' = "sleep" /\ result' = result
                     ELSE pc' = "done" /\ result' = Exhausted
    /\ UNCHANGED <<fetcher, sleeps, page, fetched>>
    /\ UNCHANGED <<varsCanon, varsBucket, varsPricing, varsRecon, varsJoin,
                  varsFanout, varsBatch, varsMain, varsCache, varsWs>>

\* the rest of the fetcher, after _request_with_retry has returned or raised
Finish ==
    /\ pc = "done"
    /\ IF result = "returned"
       THEN \E p \in Pages : page' = p
       ELSE page' = "none"
    /\ fetched' = fetch(fetcher, result, page')
    /\ pc' = "finished"
    /\ UNCHANGED <<fetcher, attempts, delay, sleeps, responses, result>>
    /\ UNCHANGED <<varsCanon, varsBucket, varsPricing, varsRecon, varsJoin,
                  varsFanout, varsBatch, varsMain, varsCache, varsWs>>

NextRetry == Call \/ Sleep \/ Get \/ Finish

-----------------------------------------------------------------------------
(* The per-season league salary fan-out: fetch_league_salaries in          *)
(* build_salaries_realgm.py (executor.submit and as_completed, a failure   *)
(* caught per team) and get_league_salaries in realgm_salaries.py          *)
(* (executor.map, results read in team order, nothing caught).             *)

\* ThreadPoolExecutor(max_workers=8)
max_workers == 8

MaxTeams == 3

\* the first keys of TEAM_INFO (and TEAM_IDS), in dict order
TEAM_INFO == <<"ATL", "BOS", "BKN", "CHA", "CHI">>

Teams == {TEAM_INFO[k] : k \in 1..MaxTeams}

TeamIndex(t) == CHOOSE k \in 1..MaxTeams : TEAM_INFO[k] = t

FanEntries == {"fetch_league_salaries", "get_league_salaries"}

\* what _fetch_team_table (fetch_team_salaries) of one team ends with: an
\* exception out of raise_for_status or read_html, or a table of rows
\* [player, season_end, salary], empty when the page has no salary table
TeamRaises == [raised |-> TRUE, rows |-> <<>>]
TeamTable(rows) == [raised |-> FALSE, rows |-> rows]
TeamTables ==
    {TeamRaises, TeamTable(<<>>),
     TeamTable(<<SalaryRow(<<"e">>, 2016, 100)>>),
     TeamTable(<<SalaryRow(<<"j">>, 2016, 100), SalaryRow(<<"e">>, 2016, 200)>>)}

\* pd.concat(frames, ignore_index=True)
RECURSIVE concat(_)
concat(fs) == IF fs = <<>> THEN <<>> ELSE Head(fs) \o concat(Tail(fs))

\* the end of fetch_league_salaries (get_league_salaries), after the pool
reconcile_frames(fs) ==
    IF fs = <<>> THEN <<>> ELSE league_reconcile(concat(fs))

InitFanout ==
    /\ entry = "fetch_league_salaries"
    /\ team_table = [t \in Teams |-> TeamTable(<<>>)]
    /\ future = [t \in Teams |-> "none"]
    /\ consumed = {}
    /\ frames = <<>>
    /\ fan_pc = "idle"
    /\ returned = NotCalled

\* the call: the pool is made, no team is submitted yet
FanCall ==
    /\ fan_pc = "idle"
    /\ \E e \in FanEntries : entry' = e
    /\ \E tt \in [Teams -> TeamTables] : team_table' = tt
    /\ future' = [t \in Teams |-> "none"]
    /\ consumed' = {}
    /\ frames' = <<>>
    /\ fan_pc' = "submit"
    /\ returned' = NotCalled
    /\ UNCHANGED <<varsCanon, varsBucket, varsPricing, varsRecon, varsJoin,
                  varsRetry, varsBatch, varsMain, varsCache, varsWs>>

\* one executor.submit of the comprehension over the teams, in dict order;
\* the workers run between two submissions; after the last one the
\* calling thread starts to take results
Submit ==
    /\ fan_pc = "submit"
    /\ \E t \in Teams :
          /\ future[t] = "none"
          /\ \A u \in Teams : future[u] = "none" => TeamIndex(t) <= TeamIndex(u)
          /\ future' = [future EXCEPT ![t] = "pending"]
          /\ fan_pc' = IF \A u \in Teams \ {t} : future[u] # "none"
                       THEN "collect" ELSE "submit"
    /\ UNCHANGED <<entry, team_table, consumed, frames, returned>>
    /\ UNCHANGED <<varsCanon, varsBucket, varsPricing, varsRecon, varsJoin,
                  varsRetry, varsBatch, varsMain, varsCache, varsWs>>

\* a worker thread enters _fetch_team_table for a queued team.  The queue is
\* first in first out, one thread per item taken: a team can be entered
\* when the teams queued before it and the ones running leave a thread
\* free, and the threads that took items enter them in any order
WorkerStart ==
    /\ \E t \in Teams :
          /\ future[t] = "pending"
          /\ Cardinality({u \in Teams :
                            \/ future[u] = "running"
                            \/ future[u] = "pending" /\ TeamIndex(u) < TeamIndex(t)})
                < max_workers
          /\ future' = [future EXCEPT ![t] = "running"]
    /\ UNCHANGED <<entry, team_table, consumed, frames, fan_pc, returned>>
    /\ UNCHANGED <<varsCanon, varsBucket, varsPricing, varsRecon, varsJoin,
                  varsRetry, varsBatch, varsMain, varsCache, varsWs>>

\* a worker thread ends _fetch_team_table: its future holds the table or
\* the exception
WorkerFinish ==
    /\ \E t \in Teams :
          /\ future[t] = "running"
          /\ future' = [future EXCEPT ![t] = "finished"]
    /\ UNCHANGED <<entry, team_table, consumed, frames, fan_pc, returned>>
    /\ UNCHANGED <<varsCanon, varsBucket, varsPricing, varsRecon, varsJoin,
                  varsRetry, varsBatch, varsMain, varsCache, varsWs>>

\* fetch_league_salaries: one turn of `for future in as_completed(futures)`
CollectCompleted ==
    /\ entry = "fetch_league_salaries"
    /\ fan_pc = "collect"
    /\ \E t \in Teams \ consumed :
          /\ future[t] = "finished"
          /\ consumed' = consumed \cup {t}
          /\ frames' = IF team_table[t].raised THEN frames
                       ELSE Append(frames, team_table[t].rows)
    /\ UNCHANGED <<entry, team_table, future, fan_pc, returned>>
    /\ UNCHANGED <<varsCanon, varsBucket, varsPricing, varsRecon, varsJoin,
                  varsRetry, varsBatch, varsMain, varsCache, varsWs>>

\* get_league_salaries: list(executor.map(...)) takes the next result in team
\* order; an exception leaves the list
CollectInOrder ==
    /\ entry = "get_league_salaries"
    /\ fan_pc = "collect"
    /\ \E t \in Teams \ consumed :
          /\ \A u \in Teams \ consumed : TeamIndex(t) <= TeamIndex(u)
          /\ future[t] = "finished"
          /\ consumed' = consumed \cup {t}
          /\ IF team_table[t].raised
             THEN /\ frames' = frames
                  /\ fan_pc' = "raising"
             ELSE /\ frames' = Append(frames, team_table[t].rows)
                  /\ fan_pc' = fan_pc
    /\ UNCHANGED <<entry, team_table, future, returned>>
    /\ UNCHANGED <<varsCanon, varsBucket, varsPricing, varsRecon, varsJoin,
                  varsRetry, varsBatch, varsMain, varsCache, varsWs>>

\* the exception on its way out of executor.map: a future not yet entered
\* by a worker is cancelled, while the workers go on entering the others
CancelPending ==
    /\ fan_pc = "raising"
    /\ \E t \in Teams :
          /\ future[t] = "pending"
          /\ future' = [future EXCEPT ![t] = "cancelled"]
    /\ UNCHANGED <<entry, team_table, consumed, frames, fan_pc, returned>>
    /\ UNCHANGED <<varsCanon, varsBucket, varsPricing, varsRecon, varsJoin,
                  varsRetry, varsBatch, varsMain, varsCache, varsWs>>

\* the frames are concatenated and grouped as soon as one result is in
Reconcile_before_all_finished ==
    /\ fan_pc = "collect"
    /\ consumed # {}
    /\ returned' = [kind |-> "table", columns |-> <<"player", "season_end", "salary">>,
                    rows |-> reconcile_frames(frames), error |-> ""]
    /\ fan_pc' = "done"
    /\ UNCHANGED <<entry, team_table, future, consumed, frames>>
    /\ UNCHANGED <<varsCanon, varsBucket, varsPricing, varsRecon, varsJoin,
                  varsRetry, varsBatch, varsMain, varsCache, varsWs>>

\* the with block is left (shutdown waits for the running workers) and the
\* frames are concatenated and grouped
Reconcile ==
    /\ fan_pc = "collect"
    /\ consumed = Teams
    /\ \A t \in Teams : future[t] \notin {"pending", "running"}
    /\ returned' = [kind |-> "table", columns |-> <<"player", "season_end", "salary">>,
                    rows |-> reconcile_frames(frames), error |-> ""]
    /\ fan_pc' = "done"
    /\ UNCHANGED <<entry, team_table, future, consumed, frames>>
    /\ UNCHANGED <<varsCanon, varsBucket, varsPricing, varsRecon, varsJoin,
                  varsRetry, varsBatch, varsMain, varsCache, varsWs>>

\* the with block is left by the exception of a team, which the call raises
Abort ==
    /\ fan_pc = "raising"
    /\ \A t \in Teams : future[t] \notin {"pending", "running"}
    /\ returned' = Raised("HTTPError")
    /\ fan_pc' = "done"
    /\ UNCHANGED <<entry, team_table, future, consumed, frames>>
    /\ UNCHANGED <<varsCanon, varsBucket, varsPricing, varsRecon, varsJoin,
                  varsRetry, varsBatch, varsMain, varsCache, varsWs>>

NextFanout ==
    FanCall \/ Submit \/ WorkerStart \/ WorkerFinish \/ CollectCompleted
        \/ CollectInOrder \/ CancelPending \/ Reconcile \/ Abort

-----------------------------------------------------------------------------
(* The season loops: build_draft_data in build_data.py (a failing season   *)
(* is caught and skipped) and main in build_salaries_realgm.py.            *)

\* start_draft_year: int = 2016, end_draft_year: int = 2020
start_draft_year == 2016
end_draft_year == 2020

\* start_season: int = 2016, end_season: int = 2024
start_season == 2016
end_season == 2024

Scripts == {"build_draft_data", "build_salaries_realgm.main"}

\* range(start, end + 1) of each loop
Seasons(sc) ==
    IF sc = "build_draft_data" THEN start_draft_year..end_draft_year
    ELSE start_season..end_season

\* a table with its columns, or an exception
Frame(cols, rows) == [raised |-> FALSE, columns |-> cols, rows |-> rows]
FetchRaises == [raised |-> TRUE, columns |-> <<>>, rows |-> <<>>]

\* what fetch_draft_class(y) can come back with: the class, the empty table
\* with the expected columns (budget exhausted, no stats table), the table
\* pd.DataFrame([]) without columns (no row parsed), or an exception
DraftOutcomes == {"rows", "empty", "no_columns", "raises"}

DraftClass(y, o) ==
    CASE o = "rows" ->
            Frame(columns("bbr_draft"),
                  <<[season_end |-> y, pick |-> 1, team |-> "ATL",
                     player_name |-> <<EAcute>>, player_slug |-> "p01"]>>)
      [] o = "empty" -> Frame(columns("bbr_draft"), <<>>)
      [] o = "no_columns" -> Frame(<<>>, <<>>)
      [] o = "raises" -> FetchRaises

\* what fetch_league_salaries(y) can come back with: the league table or the
\* empty table; it catches what its teams raise
LeagueOutcomes == {"rows", "empty"}

LeagueTable(y, o) ==
    CASE o = "rows" ->
            Frame(<<"player", "season_end", "salary">>, <<SalaryRow(<<"e">>, y, 100)>>)
      [] o = "empty" -> Frame(<<"player", "season_end", "salary">>, <<>>)

\* the columns of pd.concat(frames): the union, in order of appearance
RECURSIVE concat_columns(_)
concat_columns(fs) ==
    IF fs = <<>> THEN <<>>
    ELSE LET rest == concat_columns(Tail(fs))
             New(c) == \A k \in 1..Len(Head(fs).columns) : Head(fs).columns[k] # c
         IN  Head(fs).columns \o SelectSeq(rest, New)

\* the rows of pd.concat(frames, ignore_index=True)
RECURSIVE concat_rows(_)
concat_rows(fs) == IF fs = <<>> THEN <<>> ELSE Head(fs).rows \o concat_rows(Tail(fs))

\* draft["canonical_name"] = draft["player_name"].apply(_canonicalize)
with_canonical_name(rows) ==
    [k \in 1..Len(rows) |->
        [season_end |-> rows[k].season_end, pick |-> rows[k].pick,
         team |-> rows[k].team, player_name |-> rows[k].player_name,
         player_slug |-> rows[k].player_slug,
         canonical_name |-> _canonicalize(PyStr(rows[k].player_name)).val]]

\* build_draft_data after the loop, a season that fetched nothing being fatal
draft_after_loop_all_or_nothing(fs) ==
    IF Len(fs) < end_draft_year - start_draft_year + 1
       \/ \E k \in 1..Len(fs) : fs[k].rows = <<>>
    THEN Raised("RuntimeError: No draft data fetched")
    ELSE [kind |-> "table",
          columns |-> Append(concat_columns(fs), "canonical_name"),
          rows |-> with_canonical_name(concat_rows(fs)),
          error |-> ""]

\* build_draft_data after the loop: concat, canonical_name, to_csv
draft_after_loop(fs) ==
    IF fs = <<>> THEN Raised("RuntimeError: No draft data fetched")
    ELSE IF \A k \in 1..Len(concat_columns(fs)) : concat_columns(fs)[k] # "player_name"
    THEN Raised("KeyError: player_name")
    ELSE [kind |-> "table",
          columns |-> Append(concat_columns(fs), "canonical_name"),
          rows |-> with_canonical_name(concat_rows(fs)),
          error |-> ""]

\* build_salaries_realgm.main after the loop: concat, to_csv
salaries_after_loop(fs) ==
    [kind |-> "table",
     columns |-> <<"player", "season_end", "salary">>,
     rows |-> concat_rows(fs),
     error |-> ""]

InitBatch ==
    /\ script = "build_draft_data"
    /\ season_fetch = [y \in Seasons("build_draft_data") |-> Frame(columns("bbr_draft"), <<>>)]
    /\ season_end = start_draft_year
    /\ out_frames = <<>>
    /\ warned = {}
    /\ batch_pc = "idle"
    /\ output = NotCalled

\* the script is started: frames = [], the loop is entered
BatchCall ==
    /\ batch_pc = "idle"
    /\ \E sc \in Scripts :
          /\ script' = sc
          /\ IF sc = "build_draft_data"
             THEN \E o \in [Seasons(sc) -> DraftOutcomes] :
                     season_fetch' = [y \in Seasons(sc) |-> DraftClass(y, o[y])]
             ELSE \E o \in [Seasons(sc) -> LeagueOutcomes] :
                     season_fetch' = [y \in Seasons(sc) |-> LeagueTable(y, o[y])]
          /\ season_end' = IF sc = "build_draft_data" THEN start_draft_year
                           ELSE start_season
    /\ out_frames' = <<>>
    /\ warned' = {}
    /\ batch_pc' = "loop"
    /\ output' = NotCalled
    /\ UNCHANGED <<varsCanon, varsBucket, varsPricing, varsRecon, varsJoin,
                  varsRetry, varsFanout, varsMain, varsCache, varsWs>>

\* one turn of the loop: the season is fetched and its table appended; in
\* build_draft_data an exception is caught and a warning printed
FetchSeason ==
    /\ batch_pc = "loop"
    /\ season_end \in Seasons(script)
    /\ IF season_fetch[season_end].raised
       THEN /\ out_frames' = out_frames
            /\ warned' = warned \cup {season_end}
       ELSE /\ out_frames' = Append(out_frames, season_fetch[season_end])
            /\ warned' = warned
    /\ season_end' = season_end + 1
    /\ UNCHANGED <<script, season_fetch, batch_pc, output>>
    /\ UNCHANGED <<varsCanon, varsBucket, varsPricing, varsRecon, varsJoin,
                  varsRetry, varsFanout, varsMain, varsCache, varsWs>>

\* the loop has ended: the frames are concatenated and written
WriteOutput ==
    /\ batch_pc = "loop"
    /\ season_end \notin Seasons(script)
    /\ output' = IF script = "build_draft_data" THEN draft_after_loop(out_frames)
                 ELSE salaries_after_loop(out_frames)
    /\ batch_pc' = "done"
    /\ UNCHANGED <<script, season_fetch, season_end, out_frames, warned>>
    /\ UNCHANGED <<varsCanon, varsBucket, varsPricing, varsRecon, varsJoin,
                  varsRetry, varsFanout, varsMain, varsCache, varsWs>>

NextBatch == BatchCall \/ FetchSeason \/ WriteOutput

-----------------------------------------------------------------------------
(* process_arbitrage.py: main and what it calls.  Money is in dollars, war *)
(* in wins.                                                                *)

\* (market["salary"] > 0) & (market["war"] > 0)
market_mask(r) == RLt(IntR(0), r.salary) /\ RLt(IntR(0), r.war)

\* market.replace([np.inf, -np.inf], np.nan), on one cell of any column
replace_inf(x) == IF x.cls = "inf" THEN NaN ELSE x

\* prepare_salary_pricing, on the rows read from salary_market_raw.csv: the
\* mask, the ratio, the two infinities replaced in every column, and the
\* rows dropped whose ratio is missing
with_dollars_per_war(r) ==
    [season_end |-> r.season_end,
     salary |-> replace_inf(r.salary),
     war |-> replace_inf(r.war),
     dollars_per_war |-> replace_inf(RDiv(r.salary, r.war))]
has_dollars_per_war(r) == ~isnan(r.dollars_per_war)
prepare_salary_pricing(rows) ==
    SelectSeq(Map(with_dollars_per_war, SelectSeq(rows, market_mask)), has_dollars_per_war)

\* compute_band(market); the quantiles of an empty column are nan
band_of(q) == [q25 |-> q[1], q50 |-> q[2], q75 |-> q[3]]
compute_band(m) ==
    band_of(quantiles([k \in 1..Len(m) |-> m[k].dollars_per_war], <<q_25, q_50, q_75>>))

\* market[market["season_end"].isin(seasons)]
isin_seasons(m, seasons) ==
    LET In(r) == r.season_end \in seasons
    IN  SelectSeq(m, In)

\* market.groupby("season_end")["dollars_per_war"].median(), as a function
\* of the seasons present
season_medians(m) ==
    [y \in {m[k].season_end : k \in 1..Len(m)} |->
        LET Ratio(r) == r.dollars_per_war
        IN  median(Map(Ratio, isin_seasons(m, {y})))]

\* the values of a Series indexed by a set, as a sequence
RECURSIVE values(_)
values(f) ==
    IF DOMAIN f = {} THEN <<>>
    ELSE LET y == CHOOSE x \in DOMAIN f : \A z \in DOMAIN f : x <= z
         IN  <<f[y]>> \o values([z \in DOMAIN f \ {y} |-> f[z]])

\* the literal 1.10
apron_factor == Rat(11, 10)

\* {k: v * 1.10 for k, v in band.items()}
times(bnd, f) ==
    [q25 |-> RMul(bnd.q25, f), q50 |-> RMul(bnd.q50, f), q75 |-> RMul(bnd.q75, f)]
apron(bnd) == times(bnd, apron_factor)

\* scenario_specs as main builds it: thin and deep where their seasons have
\* rows, then apron
not_empty(m) == m # <<>>

\* compute_band of each of the markets
bands_of(markets) == [k \in 1..Len(markets) |-> compute_band(markets[k])]

\* the specs for market_high and market_low, in this order
specs_of(market_high, market_low, bnd) ==
    bands_of(SelectSeq(<<market_high, market_low>>, not_empty)) \o <<apron(bnd)>>

\* high_threshold and low_threshold are thresholds[1] and thresholds[2]
specs_by(m, bnd, meds, thresholds) ==
    specs_of(isin_seasons(m, {y \in DOMAIN meds : RLe(thresholds[1], meds[y])}),
             isin_seasons(m, {y \in DOMAIN meds : RLe(meds[y], thresholds[2])}),
             bnd)

specs_with(m, bnd, meds) == specs_by(m, bnd, meds, quantiles(values(meds), <<q_75, q_25>>))

build_scenario_specs(m, bnd) == specs_with(m, bnd, season_medians(m))

\* build_bucket_table writing a column of picks in place before grouping
build_bucket_table_in_place(p, bnd) ==
    [picks |-> LET Written(r) == [r EXCEPT !.cost_first4 = RMul(@, apron_factor)]
               IN  Map(Written, p),
     band |-> bnd,
     table |-> build_bucket_table(p, bnd)]

\* a call build_bucket_table(picks, band): the two arguments as the call
\* leaves them (both are only read) and the table returned
build_bucket_table_call(p, bnd) ==
    [picks |-> p, band |-> bnd, table |-> build_bucket_table(p, bnd)]

\* the divisor 1_000_000
ONE_MILLION == 1000000

\* format_table_for_export(table)
exported(r, mil) ==
    [bucket |-> r.bucket,
     rookie_cost_per_war_mil |-> mil[1],
     rookie_cost_q25_mil |-> mil[2],
     rookie_cost_q75_mil |-> mil[3],
     war_med |-> r.war_med,
     cost_med |-> r.cost_med,
     market_cost_q25_mil |-> mil[4],
     market_cost_q50_mil |-> mil[5],
     market_cost_q75_mil |-> mil[6],
     arbitrage_zone |-> r.arbitrage_zone,
     market_equiv_cost_4yr |-> r.market_equiv_cost_4yr,
     surplus_4yr_mil |-> mil[7]]

\* the columns divided by 1_000_000, one after the other
in_millions(cols) == [k \in 1..Len(cols) |-> RDiv(cols[k], IntR(ONE_MILLION))]

formatted_row(r) ==
    exported(r, in_millions(<<r.median, r.q25, r.q75, r.market_q25, r.market_q50,
                              r.market_q75, r.surplus_4yr>>))

format_table_for_export(t) == [k \in 1..Len(t) |-> formatted_row(t[k])]

\* table.set_index("bucket").loc[ORDER]: a label of ORDER that is not in the
\* index is a KeyError
loc_ORDER(t) ==
    IF \A b \in 1..Len(ORDER) : \E k \in 1..Len(t) : t[k].bucket = ORDER[b]
    THEN "ok" ELSE "KeyError"

\* the builtin max(a, b): a unless b > a
max(a, b) == IF RLt(a, b) THEN b ELSE a

\* Series.max(): the largest value that is not missing, nan when none is
RECURSIVE largest(_)
largest(s) == IF Len(s) = 1 THEN s[1] ELSE max(s[1], largest(Tail(s)))
Series_max(s) == IF dropna(s) = <<>> THEN NaN ELSE largest(dropna(s))

\* plot_arbitrage_map(table, band): how it ends; fa_high is
\* max(band["q75"], table["q75"].max()), and ax.set_ylim(0, fa_high * 1.25)
\* refuses a limit that is nan or infinite
set_ylim(fa_high) == IF ~isfinite(RMul(fa_high, Rat(5, 4))) THEN "ValueError" ELSE "ok"
plot_arbitrage_map(t, bnd) ==
    IF loc_ORDER(t) # "ok" THEN loc_ORDER(t)
    ELSE set_ylim(max(bnd.q75, Series_max([k \in 1..Len(t) |-> t[k].q75])))

\* plot_scenario_bars(baseline, scenario_tables, ...): how it ends
plot_scenario_bars(baseline, tables) ==
    IF \E k \in 1..Len(tables) : loc_ORDER(tables[k]) # "ok" THEN "KeyError"
    ELSE loc_ORDER(baseline)

-----------------------------------------------------------------------------
(* main as a state machine: the two files are read and prepared, the       *)
(* baseline table is built, drawn and exported and the scenario bands are  *)
(* computed, each scenario is run in turn, and the scenario bars are drawn. *)

MaxMarketRows == 2

MarketRow(y, sal, w) == [season_end |-> y, salary |-> sal, war |-> w]

\* rows of salary_market_raw.csv: 3,000,000 and 5,000,000 dollars per war,
\* and rows with no salary, no war, a missing war, an infinite war and an
\* infinite salary
MarketRows ==
    {MarketRow(2017, IntR(3000000), IntR(1)), MarketRow(2018, IntR(5000000), IntR(1)),
     MarketRow(2017, IntR(0), IntR(1)), MarketRow(2018, IntR(3000000), IntR(0)),
     MarketRow(2018, IntR(3000000), NaN), MarketRow(2018, IntR(3000000), Inf(1)),
     MarketRow(2017, Inf(1), IntR(1))}

MarketFiles == UNION {[1..n -> MarketRows] : n \in 0..MaxMarketRows}

PickRow(p, w, c) == [pick |-> p, war_first4 |-> w, cost_first4 |-> c]

\* one pick of each bucket, pick 61 falling into the last one; their costs
\* per war per season are 1,000,000, 1,000,000, 3,500,000, 3,000,000,
\* 4,000,000 and 6,000,000 dollars
BasePicks ==
    <<PickRow(3, IntR(8), IntR(32000000)), PickRow(8, IntR(4), IntR(16000000)),
      PickRow(15, IntR(2), IntR(28000000)), PickRow(25, IntR(2), IntR(24000000)),
      PickRow(40, IntR(1), IntR(16000000)), PickRow(61, IntR(1), IntR(24000000))>>

\* what one bucket of the file can be instead: without a pick, with its pick
\* having no window war or an infinite cost, or with two more picks, one of
\* negative window war
Variants == {"none", "no_war", "inf_cost", "more"}

\* the buckets that are varied
VariedBuckets == {1, 4}

Varied(base, v) ==
    CASE v = "base" -> <<base>>
      [] v = "none" -> <<>>
      [] v = "no_war" -> <<[base EXCEPT !.war_first4 = IntR(0)]>>
      [] v = "inf_cost" -> <<[base EXCEPT !.cost_first4 = Inf(1)]>>
      [] v = "more" ->
            <<base, PickRow(base.pick, IntR(1), IntR(8000000)),
              PickRow(base.pick, IntR(-1), IntR(4000000))>>

PicksOfBucket(k, v) == Varied(BasePicks[k], v)

\* the file with bucket b varied
RECURSIVE PickFile(_, _, _)
PickFile(k, b, v) ==
    IF k > Len(BasePicks) THEN <<>>
    ELSE PicksOfBucket(k, IF k = b THEN v ELSE "base") \o PickFile(k + 1, b, v)

PickFiles ==
    {PickFile(1, c[1], c[2]) :
        c \in {<<0, "base">>} \cup (VariedBuckets \X Variants)}

NoBand == [q25 |-> NaN, q50 |-> NaN, q75 |-> NaN]

InitMain ==
    /\ market_raw = <<>>
    /\ picks_raw = <<>>
    /\ main_pc = "idle"
    /\ market_df = <<>>
    /\ picks_df = <<>>
    /\ base_band = NoBand
    /\ table_baseline = <<>>
    /\ scenario_specs = <<>>
    /\ scenario_tables = <<>>
    /\ exports = <<>>
    /\ main_error = ""

\* market = prepare_salary_pricing(); picks = prepare_pick_costs()
MainPrepare ==
    /\ main_pc = "idle"
    /\ \E mf \in MarketFiles : market_raw' = mf
    /\ \E pf \in PickFiles : picks_raw' = pf
    /\ market_df' = prepare_salary_pricing(market_raw')
    /\ picks_df' = prepare_pick_costs(picks_raw')
    /\ main_pc' = "baseline"
    /\ UNCHANGED <<base_band, table_baseline, scenario_specs, scenario_tables,
                   exports, main_error>>
    /\ UNCHANGED <<varsCanon, varsBucket, varsPricing, varsRecon, varsJoin,
                   varsRetry, varsFanout, varsBatch, varsCache, varsWs>>

\* the baseline: band, table_baseline, figure 1, table 1, and the scenario
\* bands; an exception out of plot_arbitrage_map ends main
MainBaseline ==
    /\ main_pc = "baseline"
    /\ \E call \in {build_bucket_table_call(picks_df, compute_band(market_df))} :
        \E drawn \in {plot_arbitrage_map(call.table, call.band)} :
           /\ picks_df' = call.picks
           /\ base_band' = call.band
           /\ table_baseline' = call.table
           /\ IF drawn = "ok"
              THEN /\ exports' = <<format_table_for_export(call.table)>>
                   /\ scenario_specs' = build_scenario_specs(market_df, call.band)
                   /\ main_pc' = "scenarios"
                   /\ main_error' = main_error
              ELSE /\ exports' = exports
                   /\ scenario_specs' = scenario_specs
                   /\ main_pc' = "failed"
                   /\ main_error' = drawn
    /\ UNCHANGED <<market_raw, picks_raw, market_df, scenario_tables>>
    /\ UNCHANGED <<varsCanon, varsBucket, varsPricing, varsRecon, varsJoin,
                   varsRetry, varsFanout, varsBatch, varsCache, varsWs>>

\* one turn of `for spec, path in zip(scenario_specs, scenario_paths)`
RunScenario ==
    /\ main_pc = "scenarios"
    /\ Len(scenario_tables) < Len(scenario_specs)
    /\ \E k \in {Len(scenario_tables) + 1} :
        \E call \in {build_bucket_table_call(picks_df, scenario_specs[k])} :
           /\ picks_df' = call.picks
           /\ scenario_specs' = [scenario_specs EXCEPT ![k] = call.band]
           /\ scenario_tables' = Append(scenario_tables, call.table)
           /\ exports' = Append(exports, format_table_for_export(call.table))
    /\ UNCHANGED <<market_raw, picks_raw, main_pc, market_df, base_band,
                   table_baseline, main_error>>
    /\ UNCHANGED <<varsCanon, varsBucket, varsPricing, varsRecon, varsJoin,
                   varsRetry, varsFanout, varsBatch, varsCache, varsWs>>

\* plot_scenario_bars(table_baseline, scenario_tables, ...) and the end
PlotScenarioBars ==
    /\ main_pc = "scenarios"
    /\ Len(scenario_tables) = Len(scenario_specs)
    /\ LET drawn == plot_scenario_bars(table_baseline, scenario_tables)
       IN  IF drawn = "ok"
           THEN main_pc' = "done" /\ main_error' = main_error
           ELSE main_pc' = "failed" /\ main_error' = drawn
    /\ UNCHANGED <<market_raw, picks_raw, market_df, picks_df, base_band,
                   table_baseline, scenario_specs, scenario_tables, exports>>
    /\ UNCHANGED <<varsCanon, varsBucket, varsPricing, varsRecon, varsJoin,
                   varsRetry, varsFanout, varsBatch, varsCache, varsWs>>

NextMain == MainPrepare \/ MainBaseline \/ RunScenario \/ PlotScenarioBars

-----------------------------------------------------------------------------
(* bbr_player_salaries.py: fetch_player_salaries behind                    *)
(* @lru_cache(maxsize=None).  The threads of the process call it; the      *)
(* wrapper looks the slug up and returns what is stored, and on a miss the *)
(* body runs with no lock held: it waits in time.sleep and requests.get    *)
(* for each request of its _request_with_retry, and unless it raises, its  *)
(* result is stored under the slug and returned.                           *)

MaxCalls == 3

\* the slugs the process asks for; not slug holds for the empty one
Slugs == {"", "jamesle01", "curryst01"}

\* the callers tried: the function is module-level and exported, and the
\* wrapper is entered by whichever thread calls it, also while another call
\* is in the body
Threads == {"MainThread", "Thread-1"}

\* how one requests.get of the loop ends: a response that is ok, a response
\* that is not (429 or another status), or an exception
GetOutcomes == {"ok", "not_ok", "exception"}

\* the pages a response can be parsed as: only an ok response is parsed,
\* and for any other the page plays no part
ParsedPages(reply) == IF reply = "ok" THEN Pages ELSE {"no_table"}

\* a Python object: its value and its identity, the call that made it
Object(df, id) == [df |-> df, id |-> id]

\* a thread outside fetch_player_salaries
NotInCall ==
    [pc |-> "idle", slug |-> "", id |-> 0, gets |-> 0, had_returned |-> FALSE,
     res |-> "", result |-> NotCalled]

\* a cache of one entry: storing a result evicts what was stored before
cache_store_maxsize_1(c, key, obj) == key :> obj

\* lru_cache(maxsize=None) after a miss: cache[key] = result, which leaves
\* every other key and replaces what another call stored under this key
cache_store(c, key, obj) == key :> obj @@ c

InitCache ==
    /\ cache = <<>>
    /\ in_call = [t \in Threads |-> NotInCall]
    /\ first_returned = <<>>
    /\ last_call = [slug |-> "", obj |-> Object(NotCalled, 0), gets |-> 0,
                    had_returned |-> FALSE]
    /\ n_calls = 0
    /\ overlapped = {}

\* thread t calls fetch_player_salaries(slug): the wrapper returns the
\* object stored under the slug, or enters the body
CallFetchPlayerSalaries(t) ==
    /\ n_calls < MaxCalls
    /\ in_call[t].pc = "idle"
    /\ n_calls' = n_calls + 1
    /\ \E slug \in Slugs :
          IF slug \in DOMAIN cache
          THEN /\ last_call' = [slug |-> slug, obj |-> cache[slug], gets |-> 0,
                                had_returned |-> slug \in DOMAIN first_returned]
               /\ UNCHANGED <<in_call, overlapped>>
          ELSE /\ in_call' = [in_call EXCEPT ![t] =
                      [pc |-> IF slug = "" THEN "return" ELSE "request",
                       slug |-> slug, id |-> n_calls + 1, gets |-> 0,
                       had_returned |-> slug \in DOMAIN first_returned,
                       res |-> IF slug = "" THEN "no_request" ELSE "",
                       result |-> IF slug = ""
                                  THEN DataFrame(columns("bbr_player_salaries"), 0)
                                  ELSE NotCalled]]
               /\ overlapped' =
                     IF \E u \in Threads \ {t} :
                           in_call[u].pc # "idle" /\ in_call[u].slug = slug
                     THEN overlapped \cup {slug} ELSE overlapped
               /\ last_call' = last_call
    /\ UNCHANGED <<cache, first_returned>>
    /\ UNCHANGED <<varsCanon, varsBucket, varsPricing, varsRecon, varsJoin,
                   varsRetry, varsFanout, varsBatch, varsMain, varsWs>>

\* one turn of the loop of _request_with_retry in the body thread t runs:
\* the sleep and the GET request; an ok response is parsed, the last
\* response that is not ok leaves None, an exception ends the call
PlayerRequest(t) ==
    /\ in_call[t].pc = "request"
    /\ \E reply \in GetOutcomes : \E pg \in ParsedPages(reply) :
          LET gets == in_call[t].gets + 1
              res == IF reply = "ok" THEN "returned"
                     ELSE IF reply = "exception" THEN "exception"
                     ELSE IF gets = max_attempts("bbr_player_salaries") THEN "None"
                     ELSE ""
          IN  IF res = ""
              THEN /\ in_call' = [in_call EXCEPT ![t].gets = gets]
                   /\ last_call' = last_call
              ELSE IF res = "exception"
              THEN /\ in_call' = [in_call EXCEPT ![t] = NotInCall]
                   /\ last_call' =
                         [slug |-> in_call[t].slug,
                          obj |-> Object(fetch_player_salaries(res, pg), in_call[t].id),
                          gets |-> gets, had_returned |-> in_call[t].had_returned]
              ELSE /\ in_call' = [in_call EXCEPT ![t].gets = gets, ![t].pc = "return",
                                     ![t].res = res,
                                     ![t].result = fetch_player_salaries(res, pg)]
                   /\ last_call' = last_call
    /\ UNCHANGED <<cache, first_returned, n_calls, overlapped>>
    /\ UNCHANGED <<varsCanon, varsBucket, varsPricing, varsRecon, varsJoin,
                   varsRetry, varsFanout, varsBatch, varsMain, varsWs>>

\* the body thread t runs has returned: the wrapper stores the result under
\* the slug and returns it
StoreAndReturn(t) ==
    /\ in_call[t].pc = "return"
    /\ LET slug == in_call[t].slug
           obj == Object(in_call[t].result, in_call[t].id)
       IN  /\ cache' = cache_store(cache, slug, obj)
           /\ last_call' = [slug |-> slug, obj |-> obj, gets |-> in_call[t].gets,
                            had_returned |-> in_call[t].had_returned]
           /\ first_returned' =
                 IF slug \in DOMAIN first_returned THEN first_returned
                 ELSE slug :> [obj |-> obj, res |-> in_call[t].res] @@ first_returned
    /\ in_call' = [in_call EXCEPT ![t] = NotInCall]
    /\ UNCHANGED <<n_calls, overlapped>>
    /\ UNCHANGED <<varsCanon, varsBucket, varsPricing, varsRecon, varsJoin,
                   varsRetry, varsFanout, varsBatch, varsMain, varsWs>>

NextCache ==
    \E t \in Threads : CallFetchPlayerSalaries(t) \/ PlayerRequest(t) \/ StoreAndReturn(t)

-----------------------------------------------------------------------------
(* bbr_ws.py: fetch_season_win_shares from the rows of the advanced table  *)
(* on.  A <tr> is a header row, a row lacking one of the three cells, a    *)
(* row whose player cell has no data-append-csv, or a data row.            *)

MaxTrs == 3

Tr(kind, slug, nm, team, ws_text) ==
    [kind |-> kind, slug |-> slug, player_name |-> nm, team |-> team, ws_text |-> ws_text]

\* the rows tried: a player of one team and a second row of that player
\* whose ws cell reads nan, a traded player's combined TOT row and the two
\* team rows, a player whose ws cell is empty and who has a row of negative
\* win shares, and the three rows the loop skips
Trs ==
    {Tr("thead", "", "", "", <<>>),
     Tr("no_cell", "duranke01", "Kevin Durant", "GSW", <<>>),
     Tr("no_slug", "", "Player", "Tm", <<"4", ".", "0">>),
     Tr("data", "jamesle01", "LeBron James", "LAL", <<"4", ".", "0">>),
     Tr("data", "jamesle01", "LeBron James", "CLE", <<"n", "a", "n">>),
     Tr("data", "harrito02", "Tobias Harris", "TOT", <<"4", ".", "0">>),
     Tr("data", "harrito02", "Tobias Harris", "LAC", <<"2", ".", "5">>),
     Tr("data", "harrito02", "Tobias Harris", "PHI", <<"1", ".", "5">>),
     Tr("data", "curryst01", "Stephen Curry", "GSW", <<>>),
     Tr("data", "curryst01", "Stephen Curry", "CHA", <<"-", ".", "3">>)}

\* the season asked for
ws_season_end == 2019

\* the loop over table.tbody.find_all("tr"): the list rows
RECURSIVE parse_rows(_)
parse_rows(trs) ==
    IF trs = <<>> THEN <<>>
    ELSE LET tr == Head(trs)
         IN  (IF tr.kind # "data" \/ tr.slug = "" THEN <<>>
              ELSE <<[player_slug |-> tr.slug,
                      player_name |-> tr.player_name,
                      team |-> tr.team,
                      ws |-> IF float(tr.ws_text) = ValueError THEN Zero(1)
                             ELSE float(tr.ws_text),
                      season_end |-> ws_season_end]>>)
             \o parse_rows(Tail(trs))

\* df[df["team"] == "TOT"]
tot(df) ==
    LET IsTot(r) == r.team = "TOT"
    IN  SelectSeq(df, IsTot)

\* the slugs of the rows tried, in str order
SlugOrder == <<"curryst01", "harrito02", "jamesle01">>

SlugRank(slug) == CHOOSE k \in 1..Len(SlugOrder) : SlugOrder[k] = slug

\* row a sorts before row b: player_slug ascending, then ws descending,
\* a ws that is nan last
RowBefore(a, b) ==
    \/ SlugRank(a.player_slug) < SlugRank(b.player_slug)
    \/ /\ a.player_slug = b.player_slug
       /\ \/ RLt(b.ws, a.ws)
          \/ ~isnan(a.ws) /\ isnan(b.ws)

\* r put into a sorted frame, behind the rows it does not sort before
RECURSIVE insert_row(_, _)
insert_row(df, r) ==
    IF df = <<>> THEN <<r>>
    ELSE IF RowBefore(r, Head(df)) THEN <<r>> \o df
    ELSE <<Head(df)>> \o insert_row(Tail(df), r)

\* df.sort_values(["player_slug", "ws"], ascending=[True, False])
RECURSIVE sort_values(_)
sort_values(df) ==
    IF df = <<>> THEN <<>>
    ELSE insert_row(sort_values(SubSeq(df, 1, Len(df) - 1)), df[Len(df)])

\* df.drop_duplicates("player_slug", keep="first")
drop_duplicates(df) ==
    LET first == {k \in 1..Len(df) :
                     \A j \in 1..(k - 1) : df[j].player_slug # df[k].player_slug}
        RECURSIVE pick_from(_)
        pick_from(k) ==
            IF k > Len(df) THEN <<>>
            ELSE (IF k \in first THEN <<df[k]>> ELSE <<>>) \o pick_from(k + 1)
    IN  pick_from(1)

\* df[["player_slug", "player_name", "ws", "season_end"]]
ws_columns(df) ==
    [k \in 1..Len(df) |->
        [player_slug |-> df[k].player_slug, player_name |-> df[k].player_name,
         ws |-> df[k].ws, season_end |-> df[k].season_end]]

\* the rows kept when no row is a TOT row
select_without_tot(df) == drop_duplicates(sort_values(df))

\* the TOT rows if some row is one, else the sorted rows without duplicates
select_rows(df) ==
    IF tot(df) # <<>> THEN tot(df) ELSE select_without_tot(df)

\* fetch_season_win_shares, from the <tr> rows of the table on
win_shares_table(trs) ==
    LET df == parse_rows(trs)
    IN  IF df = <<>>
        THEN [kind |-> "raised", error |-> "ValueError: No rows parsed for season",
              rows |-> <<>>]
        ELSE [kind |-> "table", error |-> "", rows |-> ws_columns(select_rows(df))]

InitWs ==
    /\ advanced = <<>>
    /\ win_shares = [kind |-> "none", error |-> "", rows |-> <<>>]

\* the season's table has one more row and fetch_season_win_shares is called
FetchWinShares ==
    /\ Len(advanced) < MaxTrs
    /\ \E tr \in Trs : advanced' = Append(advanced, tr)
    /\ win_shares' = win_shares_table(advanced')
    /\ UNCHANGED <<varsCanon, varsBucket, varsPricing, varsRecon, varsJoin,
                   varsRetry, varsFanout, varsBatch, varsMain, varsCache>>

NextWs == FetchWinShares

-----------------------------------------------------------------------------
Init ==
    /\ InitCanon /\ InitBucket /\ InitPricing /\ InitRecon /\ InitJoin /\ InitRetry
    /\ InitFanout /\ InitBatch /\ InitMain /\ InitCache /\ InitWs

SpecCanon == Init /\ [][NextCanon]_vars
SpecBucket == Init /\ [][NextBucket]_vars
SpecPricing == Init /\ [][NextPricing]_vars
SpecRecon == Init /\ [][NextRecon]_vars
SpecJoin == Init /\ [][NextJoin]_vars
SpecRetry == Init /\ [][NextRetry]_vars
SpecFanout == Init /\ [][NextFanout]_vars
SpecBatch == Init /\ [][NextBatch]_vars
SpecMain == Init /\ [][NextMain]_vars
SpecCache == Init /\ [][NextCache]_vars
SpecWs == Init /\ [][NextWs]_vars
-----------------------------------------------------------------------------
(* Claims about the name canonicalizer (SpecCanon).                        *)

\* C1: canonicalization is idempotent: keying an already-canonical name
\* returns it unchanged, _canonicalize(_canonicalize(x)) = _canonicalize(x).
C1_Idempotent == recanon = canonical

\* Spelling variants of a name s.
\* the name without the diacritics that are combining marks, or that
\* Unicode decomposes into a base letter and combining marks
StripDiacritics(s) ==
    LET Plain(c) == c # CombiningAcute
        t == SelectSeq(s, Plain)
    IN  [k \in 1..Len(t) |-> IF t[k] = EAcute THEN "e" ELSE t[k]]
\* the name without any diacritic, the stroke of U+00F8 included
StripEveryDiacritic(s) ==
    [k \in 1..Len(StripDiacritics(s)) |->
        IF StripDiacritics(s)[k] = OStroke THEN "o" ELSE StripDiacritics(s)[k]]
DropMarks(s) == LET NotMark(c) == c \notin {".", ",", "'"} IN SelectSeq(s, NotMark)
SpaceForHyphen(s) == [k \in 1..Len(s) |-> IF s[k] = "-" THEN " " ELSE s[k]]
\* the letter at k in its other case, as str.upper() and str.lower() give it
SwapCase(s, k) ==
    [s EXCEPT ![k] = IF upper_char(s[k]) # s[k] THEN upper_char(s[k]) ELSE lower_char(s[k])]
\* the same, for the letters A-Z and a-z only
SwapAsciiCase(s, k) == IF s[k] \in AsciiLetters THEN SwapCase(s, k) ELSE s
\* the space at k written twice
DoubleSpace(s, k) ==
    IF s[k] = " " THEN SubSeq(s, 1, k) \o <<" ">> \o SubSeq(s, k + 1, Len(s)) ELSE s
\* the whitespace character at k written twice, or exchanged for the other
\* whitespace character
DoubleWhitespace(s, k) ==
    IF IsSpace(s[k]) THEN SubSeq(s, 1, k) \o <<s[k]>> \o SubSeq(s, k + 1, Len(s)) ELSE s
OtherWhitespace(s, k) ==
    IF IsSpace(s[k]) THEN [s EXCEPT ![k] = IF s[k] = " " THEN Tab ELSE " "] ELSE s
WithSuffix(s, w) == s \o <<" ">> \o w
GenerationalSuffixes ==
    { <<"J","r">>, <<"s","r">>, <<"I","I">>, <<"i","i","i">>, <<"I","V">>, <<"v">> }

Key(s) == _canonicalize(PyStr(s))

Nene == <<"N","e","n","e">>
NeneAccent == <<"N","e","n",EAcute>>
DAngeloRussell ==
    <<"D","'","A","n","g","e","l","o"," ","R","u","s","s","e","l","l">>
dangelo_russell ==
    <<"d","a","n","g","e","l","o"," ","r","u","s","s","e","l","l">>
GaryPayton == <<"G","a","r","y"," ","P","a","y","t","o","n">>
GaryPaytonII == GaryPayton \o <<" ","I","I">>

ExamplePairsAgree ==
    /\ Key(NeneAccent) = Key(Nene)
    /\ Key(DAngeloRussell) = Key(dangelo_russell)
    /\ Key(GaryPaytonII) = Key(GaryPayton)

\* C2 as the spec states it: two display names that differ only in
\* diacritics, in periods, commas or apostrophes, in hyphen versus space, in
\* letter case, in runs of whitespace or in a generational suffix as a whole
\* word have the same canonical name; so do the spec's three example pairs.
C2_CollapsesEveryVariant ==
    /\ isinstance_str(name) =>
          LET s == name.val IN
          /\ Key(StripEveryDiacritic(s)) = canonical
          /\ Key(DropMarks(s)) = canonical
          /\ Key(SpaceForHyphen(s)) = canonical
          /\ \A k \in 1..Len(s) : Key(SwapCase(s, k)) = canonical
          /\ \A k \in 1..Len(s) : Key(DoubleWhitespace(s, k)) = canonical
          /\ \A k \in 1..Len(s) : Key(OtherWhitespace(s, k)) = canonical
          /\ \A w \in GenerationalSuffixes : Key(WithSuffix(s, w)) = canonical
    /\ ExamplePairsAgree

\* C2: two display names that differ only in diacritics that Unicode
\* decomposition (NFKD) separates from the base letter, in periods, commas
\* or apostrophes, in hyphen versus space, in the case of the letters A-Z,
\* in runs of the space character or in a generational suffix as a whole
\* word have the same canonical name; so do the spec's three example pairs.
C2_CollapsesVariants ==
    /\ isinstance_str(name) =>
          LET s == name.val IN
          /\ Key(StripDiacritics(s)) = canonical
          /\ Key(DropMarks(s)) = canonical
          /\ Key(SpaceForHyphen(s)) = canonical
          /\ \A k \in 1..Len(s) : Key(SwapAsciiCase(s, k)) = canonical
          /\ \A k \in 1..Len(s) : Key(DoubleSpace(s, k)) = canonical
          /\ \A w \in GenerationalSuffixes : Key(WithSuffix(s, w)) = canonical
    /\ ExamplePairsAgree

\* a name with a diacritic, a space and an upper-case suffix, keyed to the
\* bare name
C2_Witness ==
    /\ name = PyStr(<<EAcute, " ", "I", "I">>)
    /\ canonical = PyStr(<<"e">>)

\* C3: the canonicalizer is total: it returns a string for every input and
\* never raises; a non-string input and the empty string yield the empty
\* string.  (Its output is a function of its input alone.)
C3_Total ==
    /\ canonical.type = "str"
    /\ \A k \in 1..Len(canonical.val) :
          canonical.val[k] \in LowerLetters \/ canonical.val[k] \in Digits
             \/ canonical.val[k] = " "
    /\ (~isinstance_str(name) \/ name.val = <<>>) => canonical = PyStr(<<>>)

\* a missing name (NaN in a pandas column) keyed to the empty string
C3_Witness == name = PyNaN /\ canonical = PyStr(<<>>)

-----------------------------------------------------------------------------
(* Claims about the bucket pricing engine (SpecBucket, SpecPricing).       *)

BucketLo(b) ==
    CASE b = "01-05" -> 1 [] b = "06-10" -> 6 [] b = "11-20" -> 11
      [] b = "21-30" -> 21 [] b = "31-45" -> 31 [] b = "46-60" -> 46
BucketHi(b) ==
    CASE b = "01-05" -> 5 [] b = "06-10" -> 10 [] b = "11-20" -> 20
      [] b = "21-30" -> 30 [] b = "31-45" -> 45 [] b = "46-60" -> 60
BucketNames == {ORDER[k] : k \in 1..Len(ORDER)}
BucketRange(b) == BucketLo(b)..BucketHi(b)

\* C4: assign_bucket is total: a pick 1..60 maps to the one bucket whose
\* range contains it (the six ranges are disjoint and cover 1..60), and any
\* other integer maps to "46-60".
C4_BucketTotal ==
    /\ bucket \in BucketNames
    /\ slot \in 1..60 => \A b \in BucketNames : (slot \in BucketRange(b)) <=> (b = bucket)
    /\ slot \notin 1..60 => bucket = "46-60"
    /\ \A b, c \in BucketNames : b # c => BucketRange(b) \cap BucketRange(c) = {}
    /\ UNION {BucketRange(b) : b \in BucketNames} = 1..60

\* a pick number beyond 60 falls into the last bucket
C4_Witness == slot = 61 /\ bucket = "46-60"

Rows(t) == {t[k] : k \in 1..Len(t)}
BuyThreshold == RMul(band.q25, RSub(IntR(1), Rat(7, 100)))
SellThreshold == RMul(band.q75, RAdd(IntR(1), Rat(7, 100)))

\* C5: in every row of the bucket table, for a band with 0 < q25 <= q75,
\* the zone is BUY exactly when median < q25 x (1 - 0.07), SELL exactly
\* when median > q75 x (1 + 0.07), NEUTRAL otherwise, the products being
\* the float products the code compares with; a median equal to a
\* threshold is NEUTRAL.
C5_ZoneClassification ==
    (RLt(IntR(0), band.q25) /\ RLe(band.q25, band.q75)) =>
        \A row \in Rows(table) :
            /\ row.arbitrage_zone \in {"BUY", "NEUTRAL", "SELL"}
            /\ (row.arbitrage_zone = "BUY") <=> RLt(row.median, BuyThreshold)
            /\ (row.arbitrage_zone = "SELL") <=> RLt(SellThreshold, row.median)
            /\ (row.median = BuyThreshold \/ row.median = SellThreshold)
                  => row.arbitrage_zone = "NEUTRAL"

\* a table with a median on each threshold, both NEUTRAL
C5_Witness ==
    /\ \E row \in Rows(table) :
          row.median = BuyThreshold /\ row.arbitrage_zone = "NEUTRAL"
    /\ \E row \in Rows(table) :
          row.median = SellThreshold /\ row.arbitrage_zone = "NEUTRAL"

ZoneRank(z) == CASE z = "BUY" -> 0 [] z = "NEUTRAL" -> 1 [] z = "SELL" -> 2

\* on which side of each breakpoint a median cost lies
ZoneSide(m) == <<RLt(m, BuyThreshold), RLt(SellThreshold, m)>>

\* C6: zone classification is monotonic: under one band, a row with the
\* smaller median cost never has the higher zone (BUY < NEUTRAL < SELL), and
\* two rows with no breakpoint between their medians have the same zone.
C6_ZoneMonotonic ==
    \A r1, r2 \in Rows(table) :
        RLe(r1.median, r2.median) =>
            /\ ZoneRank(r1.arbitrage_zone) <= ZoneRank(r2.arbitrage_zone)
            /\ (ZoneSide(r1.median) = ZoneSide(r2.median))
                  => r1.arbitrage_zone = r2.arbitrage_zone

\* one table holding a BUY row and a SELL row
C6_Witness ==
    \E r1, r2 \in Rows(table) :
        /\ RLt(r1.median, r2.median)
        /\ r1.arbitrage_zone = "BUY"
        /\ r2.arbitrage_zone = "SELL"

\* the picks of one bucket that have positive window war
BucketPicks(b) ==
    LET Counted(r) == RLt(IntR(0), r.war_first4) /\ assign_bucket(r.pick) = b
    IN  SelectSeq(pick_outcomes, Counted)
WindowWar(b) == LET g == BucketPicks(b) IN [k \in 1..Len(g) |-> g[k].war_first4]
WindowCost(b) == LET g == BucketPicks(b) IN [k \in 1..Len(g) |-> g[k].cost_first4]

\* C7: in every row, market_equiv_cost_4yr = war_med x q50 and surplus_4yr =
\* market_equiv_cost_4yr - cost_med, with war_med and cost_med the bucket's
\* median window war and cost; bucket 01-05 at a median of 2.0M against the
\* band {3.0M, 4.0M, 5.0M} is BUY with surplus war_med x 4.0M - cost_med.
C7_Surplus ==
    \A row \in Rows(table) :
        /\ row.war_med = median(WindowWar(row.bucket))
        /\ row.cost_med = median(WindowCost(row.bucket))
        /\ row.market_equiv_cost_4yr = RMul(row.war_med, band.q50)
        /\ row.surplus_4yr = RSub(row.market_equiv_cost_4yr, row.cost_med)
        /\ (row.bucket = "01-05" /\ row.median = IntR(2000000)
              /\ band = Band(3000000, 4000000, 5000000))
             => /\ row.arbitrage_zone = "BUY"
                /\ row.surplus_4yr =
                      RSub(RMul(row.war_med, IntR(4000000)), row.cost_med)

\* the spec's end-to-end scenario, with a non-zero surplus
C7_Witness ==
    /\ band = Band(3000000, 4000000, 5000000)
    /\ \E row \in Rows(table) :
          /\ row.bucket = "01-05"
          /\ row.median = IntR(2000000)
          /\ row.arbitrage_zone = "BUY"
          /\ row.surplus_4yr # IntR(0)
-----------------------------------------------------------------------------
(* Claims about salary reconciliation (SpecRecon).                         *)

SwapRows(rows, i) ==
    [k \in 1..Len(rows) |->
        IF k = i THEN rows[i + 1] ELSE IF k = i + 1 THEN rows[i] ELSE rows[k]]
MaxOf(S) == CHOOSE v \in S : \A w \in S : w <= v
\* the largest of a set of salaries
MaxSalary(S) == CHOOSE v \in S : \A w \in S : RLe(w, v)
AsCsv(t) == [k \in 1..Len(t) |-> [player |-> t[k][1], season_end |-> t[k][2], salary |-> t[k][3]]]

CanonicalOf(n) == _canonicalize(PyStr(n)).val

\* the file has the column canonical_name
Ingested == salary_csv # <<>> /\ "canonical_name" \in DOMAIN salary_csv[1]

\* the player a row of the file is about: the canonical name the file
\* gives, or, in a file without that column, the canonical name of player
PlayerOf(r) ==
    IF Ingested THEN r.canonical_name ELSE _canonicalize(read_csv_str(r.player)).val

\* the rows of the file that name a player: a canonical_name cell that is
\* empty, or reads as missing, names none
NamesPlayer(r) == ~Ingested \/ read_csv_str(r.canonical_name) # PyNaN

\* the largest salary reported for each (canonical name, season) in range
ExpectedClean ==
    LET kept == {k \in 1..Len(salary_csv) :
                    /\ salary_csv[k].season_end \in START_SEASON..END_SEASON
                    /\ NamesPlayer(salary_csv[k])}
        KeyAt(k) == <<PlayerOf(salary_csv[k]), salary_csv[k].season_end>>
    IN  {<<KeyAt(k)[1], KeyAt(k)[2],
           MaxSalary({salary_csv[j].salary : j \in {i \in kept : KeyAt(i) = KeyAt(k)}})>> :
            k \in kept}

\* the largest salary reported for each (player, season)
ExpectedLeague ==
    LET all == 1..Len(salary_csv)
        KeyAt(k) == <<salary_csv[k].player, salary_csv[k].season_end>>
    IN  {<<KeyAt(k)[1], KeyAt(k)[2],
           MaxSalary({salary_csv[j].salary : j \in {i \in all : KeyAt(i) = KeyAt(k)}})>> :
            k \in all}

\* C8: reconciliation keeps exactly one row per (player, season), holding the
\* largest salary reported; the result is the same for every order of the
\* input rows and with any row reported twice, and reconciling a reconciled
\* table returns it unchanged.
C8_ReconcileCommutes ==
    /\ Rows(salary_clean) = ExpectedClean
    /\ Cardinality(Rows(salary_clean)) = Len(salary_clean)
    /\ \A i, j \in 1..Len(salary_clean) :
          (salary_clean[i][1] = salary_clean[j][1]
             /\ salary_clean[i][2] = salary_clean[j][2]) => i = j
    /\ Rows(league) = ExpectedLeague
    /\ \A i, j \in 1..Len(league) :
          (league[i][1] = league[j][1] /\ league[i][2] = league[j][2]) => i = j
    /\ \A i \in 1..(Len(salary_csv) - 1) :
          /\ load_salary_data(SwapRows(salary_csv, i)) = salary_clean
          /\ league_reconcile(SwapRows(salary_csv, i)) = league
    /\ \A i \in 1..Len(salary_csv) :
          /\ load_salary_data(Append(salary_csv, salary_csv[i])) = salary_clean
          /\ league_reconcile(Append(salary_csv, salary_csv[i])) = league
    /\ groupby_max(salary_clean) = salary_clean
    /\ league_reconcile(AsCsv(league)) = league

\* two spellings of one player report different salaries for one season,
\* the smaller one first, and the clean table keeps the larger
C8_Witness ==
    /\ Len(salary_csv) = 3
    /\ salary_csv[1] = SalaryRow(<<EAcute>>, 2016, 100)
    /\ salary_csv[2] = SalaryRow(<<"e">>, 2016, 200)
    /\ salary_clean = << <<(<<"e">>), 2016, IntR(200)>> >>
    /\ Len(league) = 2
-----------------------------------------------------------------------------
(* Claims about the draft-to-outcome join (SpecJoin).                      *)

\* the value a lookup holds for a key: that of the last row with the key
Held(rows, who, y) ==
    LET hits == {k \in 1..Len(rows) : rows[k][1] = who /\ rows[k][2] = y}
    IN  IF hits = {} THEN 0 ELSE rows[MaxOf(hits)][3]

RECURSIVE SumOver(_, _, _)
SumOver(rows, who, years) ==
    IF years = {} THEN 0
    ELSE LET y == CHOOSE y \in years : TRUE
         IN  Held(rows, who, y) + SumOver(rows, who, years \ {y})

\* C9: build_pick_outcomes yields one output row per draft row, in order,
\* whose war_first4 is the sum of war over the keys (player_slug, s) and
\* whose cost_first4 is the sum of salary over the keys (canonical_name, s),
\* for s in exactly draft_year+1 .. draft_year+4; an absent key counts zero.
C9_JoinWindow ==
    /\ Len(outcomes) = Len(draft)
    /\ \A k \in 1..Len(draft) :
          /\ outcomes[k].player_slug = draft[k].player_slug
          /\ outcomes[k].draft_year = draft[k].season_end
          /\ outcomes[k].pick = draft[k].pick
          /\ outcomes[k].war_first4 =
                SumOver(war, draft[k].player_slug,
                        (draft[k].season_end + 1)..(draft[k].season_end + 4))
          /\ outcomes[k].cost_first4 =
                SumOver(salary, draft[k].canonical_name,
                        (draft[k].season_end + 1)..(draft[k].season_end + 4))

\* a draftee with war in the draft season (outside the window) and in the
\* last window season, and no salary row at all
C9_Witness ==
    /\ Len(draft) = 1
    /\ draft[1].player_slug = "p01"
    /\ \E k \in 1..Len(war) : war[k] = <<"p01", 2016, 20>>
    /\ \E k \in 1..Len(war) : war[k] = <<"p01", 2020, 20>>
    /\ salary = <<>>
    /\ outcomes[1].war_first4 = 20
    /\ outcomes[1].cost_first4 = 0
-----------------------------------------------------------------------------
(* Claims about the retry-fetch loops (SpecRetry).                         *)

Budget ==
    CASE fetcher = "bbr_cap" -> 5 [] fetcher = "bbr_ws" -> 7
      [] fetcher = "bbr_draft" -> 6 [] fetcher = "bbr_player_salaries" -> 6
Success(r) == ~r.raised /\ r.status_code = 200
Earlier == 1..(Len(responses) - 1)

\* C10: every call issues at most max_attempts GETs; it goes on after a 429
\* and after any other non-success status alike; it returns the first
\* successful response, with no request after it; and once the budget is
\* used the call has ended, by returning or by failing.
C10_BoundedRetry ==
    /\ attempts = Len(responses)
    /\ attempts <= Budget
    /\ pc \in {"sleep", "get"} =>
          /\ attempts < Budget
          /\ \A k \in 1..Len(responses) :
                ~responses[k].raised /\ responses[k].status_code \in {404, 429, 503}
          /\ ENABLED (Sleep \/ Get)
    /\ result = "returned" =>
          /\ pc \in {"done", "finished"}
          /\ Success(responses[Len(responses)])
          /\ \A k \in Earlier : ~Success(responses[k])
    /\ (\E k \in 1..Len(responses) : Success(responses[k])) => result = "returned"
    /\ (pc # "idle" /\ attempts = Budget) => pc \in {"done", "finished"}
    /\ pc \in {"done", "finished"} => result \in {"returned", "HTTPError", "None", "exception"}

\* a call that met a 429 and a 503 and then returned the first success
C10_Witness ==
    /\ result = "returned"
    /\ Len(responses) >= 3
    /\ \E k \in Earlier : responses[k].status_code = 429
    /\ \E k \in Earlier : responses[k].status_code = 503

\* the call used its whole budget: every response was a non-success status
BudgetExhausted ==
    /\ Len(responses) = Budget
    /\ \A k \in 1..Len(responses) :
          ~responses[k].raised /\ responses[k].status_code >= 400

\* C11: when every one of the max_attempts responses is a non-success
\* status, the loops of bbr_cap and bbr_ws raise on the last response's
\* status and hand no response to their caller, so the fetcher fails with
\* that HTTPError; the loops of bbr_draft and bbr_player_salaries return
\* None, and fetch_draft_class and fetch_player_salaries then return an
\* empty table with their expected columns and raise nothing.
C11_ExhaustedOutcome ==
    (pc \in {"done", "finished"} /\ BudgetExhausted) =>
        /\ fetcher \in {"bbr_cap", "bbr_ws"} =>
              /\ result = "HTTPError"
              /\ pc = "finished" => fetched = Raised("HTTPError")
        /\ fetcher = "bbr_draft" =>
              /\ result = "None"
              /\ pc = "finished" =>
                    fetched = DataFrame(<<"season_end", "pick", "team",
                                          "player_name", "player_slug">>, 0)
        /\ fetcher = "bbr_player_salaries" =>
              /\ result = "None"
              /\ pc = "finished" =>
                    fetched = DataFrame(<<"player_slug", "season_end", "salary">>, 0)

\* fetch_draft_class has returned after six refusals, rate limits among them
C11_Witness ==
    /\ pc = "finished"
    /\ fetcher = "bbr_draft"
    /\ BudgetExhausted
    /\ \E k \in 1..Len(responses) : responses[k].status_code = 429
    /\ responses[Len(responses)].status_code = 503
    /\ fetched.kind = "table" /\ fetched.rows = 0

\* C14: schema drift fails fast: in every fetcher, when the expected HTML
\* table or an expected column is not found in a successfully fetched page,
\* the fetcher fails with a descriptive error and returns no table, empty
\* or otherwise, to its caller.
C14_SchemaDriftFailsFast ==
    (pc = "finished" /\ result = "returned" /\ page \in {"no_table", "no_columns"}) =>
        /\ fetched.kind = "raised"
        /\ fetched.error # ""

\* the constants of the four loops, as the claim states them
BaseDelay ==
    CASE fetcher = "bbr_cap" -> Rat(1, 2) [] fetcher = "bbr_ws" -> IntR(2)
      [] fetcher = "bbr_draft" -> Rat(3, 2) [] fetcher = "bbr_player_salaries" -> IntR(1)
Multiplier ==
    CASE fetcher = "bbr_cap" -> Rat(3, 2) [] fetcher = "bbr_ws" -> Rat(8, 5)
      [] fetcher = "bbr_draft" -> Rat(3, 2) [] fetcher = "bbr_player_salaries" -> Rat(7, 5)
DelayCap ==
    CASE fetcher = "bbr_cap" -> IntR(5) [] fetcher = "bbr_ws" -> IntR(10)
      [] fetcher = "bbr_draft" -> IntR(8) [] fetcher = "bbr_player_salaries" -> IntR(8)

RECURSIVE RPow(_, _)
RPow(x, n) == IF n = 0 THEN IntR(1) ELSE RMul(x, RPow(x, n - 1))

\* C18: the retry delay is exponential and capped: the sleep before the k-th
\* request is min(base * backoff^(k-1), cap), every earlier response having
\* been a non-success; so the delays never decrease, each is the one before
\* times the backoff multiplier (or the cap) whether the failure was a 429
\* or another status, and none exceeds the cap of 5, 8, 8 or 10 seconds.
C18_DelayExponentialCapped ==
    /\ Len(sleeps) \in {attempts, attempts + 1}
    /\ \A k \in 1..Len(sleeps) :
          /\ \A j \in 1..(k - 1) : ~Success(responses[j])
          /\ sleeps[k] = RMin(RMul(BaseDelay, RPow(Multiplier, k - 1)), DelayCap)
          /\ RLe(sleeps[k], DelayCap)
          /\ k > 1 =>
                /\ RLe(sleeps[k - 1], sleeps[k])
                /\ sleeps[k] = RMin(RMul(sleeps[k - 1], Multiplier), DelayCap)

\* the win-share loop has slept 2.0, 3.2, 5.120000000000001 and
\* 8.192000000000002 (each the float product of the one before and 1.6),
\* and then the cap, 10.0, three times, after 429s and other failures
C18_Witness ==
    /\ fetcher = "bbr_ws"
    /\ Len(sleeps) = 7
    /\ sleeps[4] = RMul(RMul(RMul(IntR(2), Rat(8, 5)), Rat(8, 5)), Rat(8, 5))
    /\ RLt(Rat(1024, 125), sleeps[4])
    /\ sleeps[5] = IntR(10) /\ sleeps[7] = IntR(10)
    /\ \E k \in 1..Len(responses) : responses[k].status_code = 429
    /\ \E k \in 1..Len(responses) : responses[k].status_code = 503
-----------------------------------------------------------------------------
(* Claims about the league salary fan-out (SpecFanout).                    *)

Succeeded == {t \in Teams : ~team_table[t].raised}

\* the rows of the teams whose fetch succeeded
SucceededRows ==
    UNION {{team_table[t].rows[k] : k \in 1..Len(team_table[t].rows)} : t \in Succeeded}

\* C12: one team's failure does not abort the batch: in fetch_league_salaries
\* and in get_league_salaries, if the fetch of a team raises, the call still
\* returns a table, and the table holds, for every team whose fetch
\* succeeded, each of its (player, season) pairs with the largest salary
\* the successful teams report for it.
C12_TeamFailureDoesNotAbort ==
    (fan_pc = "done" /\ Succeeded # Teams) =>
        /\ returned.kind = "table"
        /\ \A t \in Succeeded : \A k \in 1..Len(team_table[t].rows) :
              LET r == team_table[t].rows[k]
                  same == {q \in SucceededRows :
                             q.player = r.player /\ q.season_end = r.season_end}
              IN  \E j \in 1..Len(returned.rows) :
                     returned.rows[j] =
                         <<r.player, r.season_end, MaxSalary({q.salary : q \in same})>>

\* the largest salary the successful teams report for each (player, season)
LeagueOf(rows) ==
    {<<r.player, r.season_end,
       MaxSalary({q.salary : q \in {p \in rows : p.player = r.player
                                              /\ p.season_end = r.season_end}})>> :
        r \in rows}

\* C17: the result of fetch_league_salaries does not depend on scheduling:
\* whatever the order in which the workers start and finish and the order in
\* which the calling thread takes their results, the table returned is the
\* one fixed by the outcomes of the per-team fetches (one row per player and
\* season with the largest salary, in key order); the aggregation runs only
\* after every worker has finished; and frames changes only in a step of the
\* calling thread that takes one result, never in a worker's step.
C17_SchedulingIndependent ==
    /\ [](entry = "fetch_league_salaries" /\ fan_pc = "done" =>
            /\ \A t \in Teams : future[t] = "finished"
            /\ consumed = Teams
            /\ returned.kind = "table"
            /\ Rows(returned.rows) = LeagueOf(SucceededRows)
            /\ Len(returned.rows) = Cardinality(LeagueOf(SucceededRows))
            /\ \A i, j \in 1..Len(returned.rows) :
                  i < j => KeyLess(returned.rows[i], returned.rows[j]))
    /\ [][entry = "fetch_league_salaries" /\ frames' # frames =>
            /\ future' = future
            /\ \E t \in Teams \ consumed :
                  /\ consumed' = consumed \cup {t}
                  /\ future[t] = "finished"
                  /\ frames' = Append(frames, team_table[t].rows)]_vars

\* a call has returned in which one team failed and the other results were
\* taken out of team order, the two teams reporting different salaries for
\* one player
C17_Witness ==
    /\ entry = "fetch_league_salaries"
    /\ fan_pc = "done"
    /\ team_table["ATL"].raised
    /\ frames = <<team_table["BKN"].rows, team_table["BOS"].rows>>
    /\ team_table["BOS"].rows = <<SalaryRow(<<"e">>, 2016, 100)>>
    /\ Len(team_table["BKN"].rows) = 2
    /\ returned.rows = << <<(<<"e">>), 2016, IntR(200)>>, <<(<<"j">>), 2016, IntR(100)>> >>
-----------------------------------------------------------------------------
(* Claims about the season loops (SpecBatch).                              *)

\* the seasons whose fetch gave no row: an empty table, or an exception
NoData == {y \in Seasons(script) : season_fetch[y].raised \/ season_fetch[y].rows = <<>>}

\* the row of the output that a fetched row becomes
Written(r) ==
    IF script = "build_draft_data"
    THEN [season_end |-> r.season_end, pick |-> r.pick, team |-> r.team,
          player_name |-> r.player_name, player_slug |-> r.player_slug,
          canonical_name |-> Key(r.player_name).val]
    ELSE r

\* C13: an empty result for one season does not stop the pipeline: when the
\* fetch of exactly one season of the range gives an empty table (or, in
\* build_draft_data, raises), the script runs to completion and its output
\* holds every row fetched for each of the other seasons, and nothing else.
C13_EmptySeasonDoesNotStop ==
    (batch_pc = "done" /\ Cardinality(NoData) = 1) =>
        /\ output.kind = "table"
        /\ Len(output.rows) = Cardinality(Seasons(script)) - 1
        /\ \A y \in Seasons(script) \ NoData :
              \A k \in 1..Len(season_fetch[y].rows) :
                 \E j \in 1..Len(output.rows) :
                    output.rows[j] = Written(season_fetch[y].rows[k])
        /\ script = "build_draft_data" => warned \subseteq NoData

\* build_draft_data has ended after the fetch of the 2018 class raised: a
\* warning was printed and the four other classes were written
C13_Witness ==
    /\ script = "build_draft_data"
    /\ batch_pc = "done"
    /\ season_fetch[2018].raised
    /\ NoData = {2018}
    /\ warned = {2018}
    /\ output.kind = "table"
    /\ Len(output.rows) = 4

-----------------------------------------------------------------------------
(* Claims on main of process_arbitrage.py.                                 *)

\* the rows of salary_market_raw.csv with a positive salary and a positive
\* war whose quotient is finite
FinitelyPriced(r) ==
    /\ RLt(IntR(0), r.salary)
    /\ RLt(IntR(0), r.war)
    /\ isfinite(RDiv(r.salary, r.war))

\* the rows of pick_outcomes_first4.csv with a positive window war
WindowWarPositive(r) == RLt(IntR(0), r.war_first4)

PickAsRead(r) == [pick |-> r.pick, war_first4 |-> r.war_first4, cost_first4 |-> r.cost_first4]

\* the prepared market is the finitely priced records of the file, in their
\* order, each with its quotient; the band of a market with rows is finite
MarketRatiosFinite ==
    LET kept == SelectSeq(market_raw, FinitelyPriced)
    IN  /\ Len(market_df) = Len(kept)
        /\ \A k \in 1..Len(market_df) :
              /\ market_df[k].season_end = kept[k].season_end
              /\ market_df[k].dollars_per_war = RDiv(kept[k].salary, kept[k].war)
              /\ isfinite(market_df[k].dollars_per_war)
        /\ (main_pc # "baseline" /\ market_df # <<>>) =>
              /\ isfinite(base_band.q25)
              /\ isfinite(base_band.q50)
              /\ isfinite(base_band.q75)

\* the prepared picks are the picks of the file with a positive window war,
\* as they were read, each with its cost per war per season
PicksOfPositiveWar ==
    /\ \A k \in 1..Len(picks_df) :
          /\ RLt(IntR(0), picks_df[k].war_first4)
          /\ picks_df[k].cost_per_war_per_season
                = RDiv(RDiv(picks_df[k].cost_first4, picks_df[k].war_first4), IntR(4))
    /\ [k \in 1..Len(picks_df) |-> PickAsRead(picks_df[k])]
          = SelectSeq(picks_raw, WindowWarPositive)

\* every cost per war aggregated and every rookie statistic is finite
PickRatiosFinite ==
    /\ \A k \in 1..Len(picks_df) : isfinite(picks_df[k].cost_per_war_per_season)
    /\ main_pc # "baseline" =>
          \A k \in 1..Len(table_baseline) :
              /\ isfinite(table_baseline[k].median)
              /\ isfinite(table_baseline[k].q25)
              /\ isfinite(table_baseline[k].q75)

\* C15: non-finite ratios never reach a percentile: every dollars-per-war
\* value of the prepared market comes from a record with salary > 0 and
\* war > 0, every cost-per-war value of the prepared picks comes from a pick
\* with war_first4 > 0; the records that would give a zero-division, an
\* infinite or an undefined ratio are dropped, so every ratio aggregated,
\* the band of a market with rows and every rookie quantile of the bucket
\* table are finite.
C15_NonFiniteNeverAggregated ==
    main_pc # "idle" =>
        /\ MarketRatiosFinite
        /\ PicksOfPositiveWar
        /\ PickRatiosFinite

\* the same for the market alone, and for the picks when every cost of the
\* file is finite
NonFiniteNeverAggregatedOfFiniteCosts ==
    main_pc # "idle" =>
        /\ MarketRatiosFinite
        /\ PicksOfPositiveWar
        /\ (\A k \in 1..Len(picks_raw) : isfinite(picks_raw[k].cost_first4))
              => PickRatiosFinite

\* the table the e-th export was formatted from: the baseline, then the
\* scenario tables in turn
Exported(e) == IF e = 1 THEN table_baseline ELSE scenario_tables[e - 1]

InMillions(x) == RDiv(x, IntR(ONE_MILLION))

\* C16: formatted export tables are in millions of dollars: in every table
\* format_table_for_export returned, each dollar-valued column of the bucket
\* summary (the rookie cost median and quartiles, the three market
\* quartiles, cost_med, market_equiv_cost_4yr and surplus_4yr) is the raw
\* value divided by 1,000,000.
C16_ExportInMillions ==
    \A e \in 1..Len(exports) :
        /\ Len(exports[e]) = Len(Exported(e))
        /\ \A k \in 1..Len(exports[e]) :
              LET raw == Exported(e)[k]
                  out == exports[e][k]
              IN  /\ out.rookie_cost_per_war_mil = InMillions(raw.median)
                  /\ out.rookie_cost_q25_mil = InMillions(raw.q25)
                  /\ out.rookie_cost_q75_mil = InMillions(raw.q75)
                  /\ out.market_cost_q25_mil = InMillions(raw.market_q25)
                  /\ out.market_cost_q50_mil = InMillions(raw.market_q50)
                  /\ out.market_cost_q75_mil = InMillions(raw.market_q75)
                  /\ out.cost_med = InMillions(raw.cost_med)
                  /\ out.market_equiv_cost_4yr = InMillions(raw.market_equiv_cost_4yr)
                  /\ out.surplus_4yr_mil = InMillions(raw.surplus_4yr)

\* the same without the two columns format_table_for_export leaves alone
ExportInMillionsOfScaledColumns ==
    \A e \in 1..Len(exports) :
        /\ Len(exports[e]) = Len(Exported(e))
        /\ \A k \in 1..Len(exports[e]) :
              LET raw == Exported(e)[k]
                  out == exports[e][k]
              IN  /\ out.rookie_cost_per_war_mil = InMillions(raw.median)
                  /\ out.rookie_cost_q25_mil = InMillions(raw.q25)
                  /\ out.rookie_cost_q75_mil = InMillions(raw.q75)
                  /\ out.market_cost_q25_mil = InMillions(raw.market_q25)
                  /\ out.market_cost_q50_mil = InMillions(raw.market_q50)
                  /\ out.market_cost_q75_mil = InMillions(raw.market_q75)
                  /\ out.surplus_4yr_mil = InMillions(raw.surplus_4yr)
                  /\ out.cost_med = raw.cost_med
                  /\ out.market_equiv_cost_4yr = raw.market_equiv_cost_4yr

\* the pick table and the baseline band as main computes them from the two
\* files, before any table is built
OriginalPicks == prepare_pick_costs(picks_raw)

OriginalBand == compute_band(prepare_salary_pricing(market_raw))

\* the scenario bands computed from the files alone: thin and deep where
\* their seasons have rows, and apron, every baseline quantile times 1.10
OriginalSpecs ==
    LET m == prepare_salary_pricing(market_raw)
        specs == build_scenario_specs(m, compute_band(m))
        thin_deep == SubSeq(specs, 1, Len(specs) - 1)
    IN  thin_deep \o <<[q25 |-> RMul(OriginalBand.q25, Rat(11, 10)),
                        q50 |-> RMul(OriginalBand.q50, Rat(11, 10)),
                        q75 |-> RMul(OriginalBand.q75, Rat(11, 10))]>>

\* C19: scenario runs share no state: build_bucket_table leaves the pick
\* table and the band it is given unchanged, so after any number of runs the
\* picks and the bands are the original ones, the table of each scenario
\* run so far equals the table of a standalone call with that scenario's
\* band and the original picks, and the baseline table is still the table of
\* the original picks under the baseline band.
C19_ScenarioRunsShareNoState ==
    main_pc \notin {"idle", "baseline"} =>
        \A original_picks \in {OriginalPicks}, original_specs \in {OriginalSpecs} :
            /\ picks_df = original_picks
            /\ base_band = OriginalBand
            /\ table_baseline = build_bucket_table(original_picks, OriginalBand)
            /\ scenario_specs # <<>> => scenario_specs = original_specs
            /\ Len(scenario_tables) <= Len(scenario_specs)
            /\ \A k \in 1..Len(scenario_tables) :
                  scenario_tables[k] = build_bucket_table(original_picks, original_specs[k])

\* main has ended after the thin, deep and apron runs, whose three tables
\* differ from one another and from the baseline table
C19_Witness ==
    /\ main_pc = "done"
    /\ Len(scenario_tables) = 3
    /\ \A j, k \in 1..3 : j # k => scenario_tables[j] # scenario_tables[k]
    /\ \A k \in 1..3 : scenario_tables[k] # table_baseline
    /\ table_baseline # <<>>

\* the bucket column of a bucket table
BucketsOf(t) == [k \in 1..Len(t) |-> t[k].bucket]

\* C20: every bucket summary is renderable: for every pick-outcome table
\* prepare_pick_costs accepts, also one where some bucket has no pick with
\* positive window war, the baseline table and every scenario table have one
\* row for each of the six buckets of ORDER, in that order, and neither
\* plot_arbitrage_map nor plot_scenario_bars fails selecting them.
C20_EverySummaryRenderable ==
    main_pc \notin {"idle", "baseline"} =>
        /\ BucketsOf(table_baseline) = ORDER
        /\ \A k \in 1..Len(scenario_tables) : BucketsOf(scenario_tables[k]) = ORDER
        /\ main_error # "KeyError"

\* when every bucket of the file has a pick with positive window war the
\* tables do have the six rows and no selection fails
RenderableWhenEveryBucketHasAPick ==
    (/\ main_pc \notin {"idle", "baseline"}
     /\ \A b \in 1..Len(ORDER) :
           \E k \in 1..Len(picks_raw) :
              /\ assign_bucket(picks_raw[k].pick) = ORDER[b]
              /\ RLt(IntR(0), picks_raw[k].war_first4))
        => C20_EverySummaryRenderable

-----------------------------------------------------------------------------
(* Claims on the cache of fetch_player_salaries.                           *)

\* the latest call to end had begun after a call for its slug had returned
Repeated == last_call.had_returned

\* a call has ended
SomeCallEnded == last_call.obj.id # 0

\* the latest call to end raised
LastRaised == last_call.obj.df.kind = "raised"

Replaced ==
    /\ Repeated
    /\ last_call.slug = "jamesle01"
    /\ last_call.gets = 0
    /\ last_call.obj # first_returned["jamesle01"].obj

-----
(* Claims on fetch_season_win_shares.                                      *)

\* the data rows of the advanced table: the rows with the three cells and a
\* player slug
DataRows == {k \in 1..Len(advanced) : advanced[k].kind = "data" /\ advanced[k].slug # ""}

PlayersOfSeason == {advanced[k].slug : k \in DataRows}

\* the win shares of a data row, 0.0 for a cell float() refuses
WsOfRow(k) ==
    IF float(advanced[k].ws_text) = ValueError THEN Zero(1) ELSE float(advanced[k].ws_text)

TotRowsOf(p) == {k \in DataRows : advanced[k].slug = p /\ advanced[k].team = "TOT"}

\* the rows of the result that are player p's
ResultRowsOf(p) == {j \in 1..Len(win_shares.rows) : win_shares.rows[j].player_slug = p}

\* in the result player p has exactly one row, and it is the TOT row if there
\* is one and else the row of highest win shares, a ws of nan counting
\* below every number
OneRowFor(p) ==
    /\ Cardinality(ResultRowsOf(p)) = 1
    /\ \A j \in ResultRowsOf(p) :
          IF TotRowsOf(p) # {}
          THEN \E k \in TotRowsOf(p) : win_shares.rows[j].ws = WsOfRow(k)
          ELSE /\ \E k \in DataRows :
                     advanced[k].slug = p /\ win_shares.rows[j].ws = WsOfRow(k)
               /\ \A k \in DataRows :
                     (advanced[k].slug = p /\ ~isnan(WsOfRow(k)))
                        => RLe(WsOfRow(k), win_shares.rows[j].ws)

\* C22: fetch_season_win_shares returns exactly one row per player of the
\* season: every player slug with a data row in the advanced table appears
\* exactly once in the table returned, whether or not some player of the
\* season has a combined TOT row; a player with a TOT row is represented by
\* it, any other player by the row of highest win shares.
C22_OneRowPerPlayer ==
    win_shares.kind = "table" =>
        /\ \A p \in PlayersOfSeason : OneRowFor(p)
        /\ \A j \in 1..Len(win_shares.rows) :
              win_shares.rows[j].player_slug \in PlayersOfSeason

\* when no row of the season is a TOT row, every player has exactly one row
OneRowPerPlayerWithoutTot ==
    (win_shares.kind = "table" /\ \A p \in PlayersOfSeason : TotRowsOf(p) = {})
        => \A p \in PlayersOfSeason : OneRowFor(p)

\* when some row of the season is a TOT row, the table returned holds the
\* players with a TOT row and nobody else
OnlyTotPlayersWithTot ==
    (win_shares.kind = "table" /\ \E p \in PlayersOfSeason : TotRowsOf(p) # {})
        => \A p \in PlayersOfSeason : (ResultRowsOf(p) # {}) <=> (TotRowsOf(p) # {})
=============================================================================
